---------------------------- MODULE Spec2Model ----------------------------
(***************************************************************************)
(* Perceptron branch-direction predictor of src/bp/bp_perceptron.c.        *)
(*                                                                         *)
(* A 64-bit unsigned value (uns64: the global history register, a program  *)
(* counter) is a function from bit position 0..63 to {0,1}, bit 0 being    *)
(* the least significant bit, so that a left shift really loses bit 63.    *)
(* A weight vector is the 65-slot array of struct Perceptron.              *)
(***************************************************************************)
EXTENDS Integers, Sequences, FiniteSets, TLC

(* ---------------- program constants (bp_perceptron.h) ------------------ *)
PERCEPTRON_MAX_HIST_LEN == 64
PERCEPTRON_WEIGHT_MAX == 127
PERCEPTRON_WEIGHT_MIN == -128

(* ---------------- bounds of the model --------------------------------- *)
\* parameter PERCEPTRON_HIST_LEN of the simulator (history length in use)
HistLen == 2
\* parameter PERCEPTRON_TABLE_BITS of the simulator (log2 of the entries)
TableBits == 1
\* number of branch operations the host fetches in one run
MaxOps == 2
\* number of weight updates applied in a run that trains one snapshot repeatedly
MaxUpdates == 130

(* ---------------- 64-bit unsigned values ------------------------------- *)
BitPos == 0..63
U64 == [BitPos -> {0, 1}]

Pow2(n) == IF n = 0 THEN 1 ELSE 2 ^ n

\* the uns64 holding the small natural n (n < 2^30)
FromNat(n) == [j \in BitPos |-> IF j < 30 THEN (n \div Pow2(j)) % 2 ELSE 0]
\* the natural held in the low 30 bits of g
RECURSIVE LowNat(_, _)
LowNat(g, j) == IF j >= 30 THEN 0 ELSE g[j] * Pow2(j) + LowNat(g, j + 1)

\* (f @@ <<>> is f; it makes TLC keep the result as an explicit function,
\* so that repeated shifts do not nest)
Shl1(g) == [j \in BitPos |-> IF j = 0 THEN 0 ELSE g[j - 1]] @@ <<>>
Shr1(g) == [j \in BitPos |-> IF j = 63 THEN 0 ELSE g[j + 1]] @@ <<>>
Shr2(g) == Shr1(Shr1(g))
BitAnd(a, b) == [j \in BitPos |-> IF a[j] = 1 /\ b[j] = 1 THEN 1 ELSE 0]
BitOr(a, b) == [j \in BitPos |-> IF a[j] = 1 \/ b[j] = 1 THEN 1 ELSE 0]

Zero64 == FromNat(0)
Ones64 == [j \in BitPos |-> 1]

(* ---------------- helper functions ------------------------------------ *)
\* theta = floor(1.93 * h + 14); for h <= 64 the double product is never
\* within rounding distance of an integer, so the truncation is exact
\* variant: the constant term of the threshold is left out
calculate_threshold_noconst(hist_len) == (193 * hist_len) \div 100

\* variant: rounded to the nearest integer instead of truncated
calculate_threshold_round(hist_len) == (193 * hist_len + 1450) \div 100

calculate_threshold(hist_len) == (193 * hist_len + 1400) \div 100

\* variant: the two alignment bits are not shifted out
compute_index_noshift(pc, entries) == LowNat(BitAnd(pc, FromNat(entries - 1)), 0)

\* (pc >> 2) & (num_entries - 1), truncated to uns32
compute_index(pc, entries) == LowNat(BitAnd(Shr2(pc), FromNat(entries - 1)), 0)

to_bipolar(bit) == IF bit # 0 THEN 1 ELSE -1

\* conversion of an int32 to the 8-bit signed Perceptron_Weight
ToInt8(val) == ((val + 128) % 256) - 128

saturate_weight_wide(val) == val
saturate_weight_wrap(val) == ToInt8(val)
saturate_weight(val) ==
    IF val > PERCEPTRON_WEIGHT_MAX THEN PERCEPTRON_WEIGHT_MAX
    ELSE IF val < PERCEPTRON_WEIGHT_MIN THEN PERCEPTRON_WEIGHT_MIN
    ELSE ToInt8(val)

Abs(v) == IF v < 0 THEN -v ELSE v

Slots == 0..PERCEPTRON_MAX_HIST_LEN
ZeroWeights == [j \in Slots |-> 0]

(* ---------------- core prediction logic -------------------------------- *)
\* variant: weight i is paired with bit i of the history instead of bit i-1
RECURSIVE PredictLoop_nextbit(_, _, _, _, _)
PredictLoop_nextbit(w, i, hl, hist, y) ==
    IF i > hl \/ y \notin Int THEN y
    ELSE PredictLoop_nextbit(w, i + 1, hl, Shr1(hist), y + to_bipolar(hist[1]) * w[i])
\* the loop of bp_perceptron_predict: i runs from 1 to hist_len, hist is
\* shifted right once per iteration
\* (y is always an integer: the test only makes TLC compute the sum at every
\* iteration instead of keeping hist_len pending additions)
RECURSIVE PredictLoop(_, _, _, _, _)
PredictLoop(w, i, hl, hist, y) ==
    IF i > hl \/ y \notin Int THEN y
    ELSE PredictLoop(w, i + 1, hl, Shr1(hist), y + to_bipolar(hist[0]) * w[i])

\* the low n bits of g, the others cleared
LowBits(g, n) == [j \in BitPos |-> IF j < n THEN g[j] ELSE 0]

\* variant: the prediction also advances the history register
bp_perceptron_predict_shifts(tbl, entries, hl, g, pc) ==
    LET index == compute_index(pc, entries)
        y == PredictLoop(tbl[index], 1, hl, g, tbl[index][0])
    IN [ret |-> IF y >= 0 THEN 1 ELSE 0,
        y_out |-> y, saved_ghist |-> g, saved_index |-> index,
        table |-> tbl,
        ghist |-> BitOr(Shl1(g), FromNat(IF y >= 0 THEN 1 ELSE 0))]
\* variant: a raw output of 0 is predicted not-taken
bp_perceptron_predict_strict(tbl, entries, hl, g, pc) ==
    LET index == compute_index(pc, entries)
        y == PredictLoop(tbl[index], 1, hl, g, tbl[index][0])
    IN [ret |-> IF y > 0 THEN 1 ELSE 0,
        y_out |-> y, saved_ghist |-> g, saved_index |-> index,
        table |-> tbl, ghist |-> g]
\* variant: only the history bits in use are saved
bp_perceptron_predict_lowbits(tbl, entries, hl, g, pc) ==
    LET index == compute_index(pc, entries)
        y == PredictLoop(tbl[index], 1, hl, g, tbl[index][0])
    IN [ret |-> IF y >= 0 THEN 1 ELSE 0,
        y_out |-> y, saved_ghist |-> LowBits(g, hl), saved_index |-> index,
        table |-> tbl, ghist |-> g]

\* variant: the prediction moves the bias weight towards the direction it
\* predicts
bp_perceptron_predict_learns(tbl, entries, hl, g, pc) ==
    LET index == compute_index(pc, entries)
        y == PredictLoop(tbl[index], 1, hl, g, tbl[index][0])
    IN [ret |-> IF y >= 0 THEN 1 ELSE 0,
        y_out |-> y, saved_ghist |-> g, saved_index |-> index,
        table |-> [tbl EXCEPT ![index][0] =
                      saturate_weight(@ + (IF y >= 0 THEN 1 ELSE -1))],
        ghist |-> g]

\* bp_perceptron_predict against table tbl and history register g: the
\* return value, the three out-parameters, and the table and register it
\* leaves
bp_perceptron_predict(tbl, entries, hl, g, pc) ==
    LET index == compute_index(pc, entries)
        y == PredictLoop(tbl[index], 1, hl, g, tbl[index][0])
    IN [ret |-> IF y >= 0 THEN 1 ELSE 0,
        y_out |-> y, saved_ghist |-> g, saved_index |-> index,
        table |-> tbl, ghist |-> g]

(* ---------------- global history management --------------------------- *)
\* variant: the bit shifted out of position 63 re-enters at position 0
bp_perceptron_shift_ghist_rotate(g, taken) ==
    BitOr(BitOr(Shl1(g), FromNat(g[63])), FromNat(IF taken # 0 THEN 1 ELSE 0))
bp_perceptron_shift_ghist(g, taken) ==
    BitOr(Shl1(g), FromNat(IF taken # 0 THEN 1 ELSE 0))

\* variant: the restored value is truncated to 32 bits
bp_perceptron_restore_ghist_low(h) == LowBits(h, 32)

bp_perceptron_restore_ghist(h) == h

(* ---------------- core update logic ------------------------------------ *)
\* variant: the loop runs one weight further than hist_len
RECURSIVE TrainLoop_plus(_, _, _, _, _)
TrainLoop_plus(w, i, hl, hist, t) ==
    IF i > hl + 1 \/ w[i] \notin Int THEN w
    ELSE TrainLoop_plus(
             [w EXCEPT ![i] = saturate_weight(w[i] + t * to_bipolar(hist[0]))],
             i + 1, hl, Shr1(hist), t)
\* variant: the history is not shifted between weights
RECURSIVE TrainLoop_noshift(_, _, _, _, _)
TrainLoop_noshift(w, i, hl, hist, t) ==
    IF i > hl THEN w
    ELSE TrainLoop_noshift(
             [w EXCEPT ![i] = saturate_weight(w[i] + t * to_bipolar(hist[0]))],
             i + 1, hl, hist, t)
\* the history-weight loop of bp_perceptron_train (w[i] is always an integer:
\* the test only makes TLC compute the weights at every iteration)
RECURSIVE TrainLoop(_, _, _, _, _)
TrainLoop(w, i, hl, hist, t) ==
    IF i > hl \/ w[i] \notin Int THEN w
    ELSE TrainLoop([w EXCEPT ![i] = saturate_weight(w[i] + t * to_bipolar(hist[0]))],
                   i + 1, hl, Shr1(hist), t)

TrainT(taken) == IF taken # 0 THEN 1 ELSE -1
TrainPredicted(y_out) == IF y_out >= 0 THEN 1 ELSE -1
\* variant: only a raw output within the threshold is trained
TrainDoUpdate_lowonly(taken, y_out, th) == Abs(y_out) <= th
\* variant: every resolved branch is trained, whatever the raw output
TrainDoUpdate_always(taken, y_out, th) == TRUE
\* variant: a raw output equal to the threshold is not trained
TrainDoUpdate_strict(taken, y_out, th) ==
    (TrainPredicted(y_out) # TrainT(taken)) \/ (Abs(y_out) < th)
\* do_update
TrainDoUpdate(taken, y_out, th) ==
    (TrainPredicted(y_out) # TrainT(taken)) \/ (Abs(y_out) <= th)

\* the weights of the trained entry after the update branch of train
TrainWeights(w, hl, taken, saved_ghist) ==
    LET t == TrainT(taken)
        w0 == [w EXCEPT ![0] = saturate_weight(w[0] + t)]
    IN TrainLoop(w0, 1, hl, saved_ghist, t)

\* variant: the weights are updated from the live history register
bp_perceptron_train_live(tbl, hl, th, g, taken, y_out, saved_ghist, saved_index) ==
    LET mis == TrainPredicted(y_out) # TrainT(taken)
        upd == TrainDoUpdate(taken, y_out, th)
    IN [table |-> IF upd
                  THEN [tbl EXCEPT ![saved_index] =
                           TrainWeights(tbl[saved_index], hl, taken, g)]
                  ELSE tbl,
        ghist |-> g,
        mispredictions |-> IF mis THEN 1 ELSE 0,
        updates |-> IF upd THEN 1 ELSE 0,
        threshold_updates |-> IF upd /\ ~mis THEN 1 ELSE 0]
\* variant: training also shifts the outcome into the history register
bp_perceptron_train_shifts(tbl, hl, th, g, taken, y_out, saved_ghist, saved_index) ==
    LET mis == TrainPredicted(y_out) # TrainT(taken)
        upd == TrainDoUpdate(taken, y_out, th)
    IN [table |-> IF upd
                  THEN [tbl EXCEPT ![saved_index] =
                           TrainWeights(tbl[saved_index], hl, taken, saved_ghist)]
                  ELSE tbl,
        ghist |-> bp_perceptron_shift_ghist(g, taken),
        mispredictions |-> IF mis THEN 1 ELSE 0,
        updates |-> IF upd THEN 1 ELSE 0,
        threshold_updates |-> IF upd /\ ~mis THEN 1 ELSE 0]

\* variant: every applied update is counted as a low-confidence update
bp_perceptron_train_counts(tbl, hl, th, g, taken, y_out, saved_ghist, saved_index) ==
    LET mis == TrainPredicted(y_out) # TrainT(taken)
        upd == TrainDoUpdate(taken, y_out, th)
    IN [table |-> IF upd
                  THEN [tbl EXCEPT ![saved_index] =
                           TrainWeights(tbl[saved_index], hl, taken, saved_ghist)]
                  ELSE tbl,
        ghist |-> g,
        mispredictions |-> IF mis THEN 1 ELSE 0,
        updates |-> IF upd THEN 1 ELSE 0,
        threshold_updates |-> IF upd THEN 1 ELSE 0]

\* variant: the update condition is taken from the entry's present weights
\* instead of the snapshot's raw output
bp_perceptron_train_recompute(tbl, hl, th, g, taken, y_out, saved_ghist, saved_index) ==
    LET y == PredictLoop(tbl[saved_index], 1, hl, saved_ghist, tbl[saved_index][0])
        mis == TrainPredicted(y) # TrainT(taken)
        upd == TrainDoUpdate(taken, y, th)
    IN [table |-> IF upd
                  THEN [tbl EXCEPT ![saved_index] =
                           TrainWeights(tbl[saved_index], hl, taken, saved_ghist)]
                  ELSE tbl,
        ghist |-> g,
        mispredictions |-> IF mis THEN 1 ELSE 0,
        updates |-> IF upd THEN 1 ELSE 0,
        threshold_updates |-> IF upd /\ ~mis THEN 1 ELSE 0]

\* bp_perceptron_train against table tbl and history register g: the table
\* and register it leaves and the increments of the three counters
bp_perceptron_train(tbl, hl, th, g, taken, y_out, saved_ghist, saved_index) ==
    LET mis == TrainPredicted(y_out) # TrainT(taken)
        upd == TrainDoUpdate(taken, y_out, th)
    IN [table |-> IF upd
                  THEN [tbl EXCEPT ![saved_index] =
                           TrainWeights(tbl[saved_index], hl, taken, saved_ghist)]
                  ELSE tbl,
        ghist |-> g,
        mispredictions |-> IF mis THEN 1 ELSE 0,
        updates |-> IF upd THEN 1 ELSE 0,
        threshold_updates |-> IF upd /\ ~mis THEN 1 ELSE 0]

(* ---------------- predictor state -------------------------------------- *)
VARIABLES
    table,                  \* bp_perceptron.table: entry -> 65 weights
    num_entries,            \* bp_perceptron.num_entries
    hist_len,               \* bp_perceptron.hist_len
    threshold,              \* bp_perceptron.threshold
    ghist,                  \* bp_perceptron.ghist
    stat_predictions,
    stat_mispredictions,
    stat_updates,
    stat_threshold_updates,
    ops,                    \* the host's in-flight Op records, in fetch order
    op_count,               \* branches fetched by the host since initialization
    last                    \* the call made last, with the state it was made in

bp == <<table, num_entries, hist_len, threshold, ghist>>
stats == <<stat_predictions, stat_mispredictions, stat_updates, stat_threshold_updates>>
vars == <<table, num_entries, hist_len, threshold, ghist, stat_predictions,
          stat_mispredictions, stat_updates, stat_threshold_updates, ops, op_count,
          last>>

\* the predictor's own state as one value (what a call may read or write)
Snapshot == [table |-> table, num_entries |-> num_entries, hist_len |-> hist_len,
             threshold |-> threshold, ghist |-> ghist,
             stat_predictions |-> stat_predictions,
             stat_mispredictions |-> stat_mispredictions,
             stat_updates |-> stat_updates,
             stat_threshold_updates |-> stat_threshold_updates]

\* the same without the history register
Frame == [table |-> table, num_entries |-> num_entries, hist_len |-> hist_len,
          threshold |-> threshold,
          stat_predictions |-> stat_predictions,
          stat_mispredictions |-> stat_mispredictions,
          stat_updates |-> stat_updates,
          stat_threshold_updates |-> stat_threshold_updates]

(* ---------------- inputs of the host ----------------------------------- *)
\* a program counter with bit 63 set, low bits `low`
HighPc(low) == [FromNat(low) EXCEPT ![63] = 1]
\* branch addresses: one of entry 1; one of entry 0 with both alignment bits
\* and pc bits above the index bits set
PCs == {FromNat(4), HighPc(3 + 4 * Pow2(TableBits))}

\* history value a recovery may hand in besides the captured ones: bit 63
\* set, the history bits in use mixed
RecoverValues == {[Ones64 EXCEPT ![1] = 0]}

\* a pc that maps to entry e
PcOfEntry(e) == FromNat(4 * e)

(* ---------------- initialization --------------------------------------- *)
\* variant: the history register and the counters are left as they are
bp_perceptron_init_with_stale(hl, n) ==
    [table |-> [e \in 0..(n - 1) |-> [j \in Slots |-> 0]],
     num_entries |-> n,
     hist_len |-> hl,
     threshold |-> calculate_threshold(hl),
     ghist |-> ghist,
     stat_predictions |-> stat_predictions,
     stat_mispredictions |-> stat_mispredictions,
     stat_updates |-> stat_updates,
     stat_threshold_updates |-> stat_threshold_updates]
\* bp_perceptron_init once 1 << PERCEPTRON_TABLE_BITS has given n entries
\* and both assertions have passed: the state it leaves
bp_perceptron_init_with(hl, n) ==
    [table |-> [e \in 0..(n - 1) |-> [j \in Slots |-> 0]],
     num_entries |-> n,
     hist_len |-> hl,
     threshold |-> calculate_threshold(hl),
     ghist |-> Zero64,
     stat_predictions |-> 0,
     stat_mispredictions |-> 0,
     stat_updates |-> 0,
     stat_threshold_updates |-> 0]

\* bp_perceptron_init with parameters PERCEPTRON_HIST_LEN = hl and
\* PERCEPTRON_TABLE_BITS = tb, both valid: the state it leaves
bp_perceptron_init(hl, tb) == bp_perceptron_init_with(hl, Pow2(tb))

\* One warm-up branch: recover(Ones64), predict a pc of entry e against the
\* cold table (raw output 0), later train it with outcome `taken`.
WarmTrain(s, e, taken) ==
    LET cold == bp_perceptron_init(s.hist_len, TableBits)
        p == bp_perceptron_predict(cold.table, s.num_entries, s.hist_len,
                                   bp_perceptron_restore_ghist(Ones64), PcOfEntry(e))
        r == bp_perceptron_train(s.table, s.hist_len, s.threshold, p.ghist, taken,
                                 p.y_out, p.saved_ghist, p.saved_index)
    IN [s EXCEPT !.table = r.table,
                 !.ghist = r.ghist,
                 !.stat_predictions = @ + 1,
                 !.stat_mispredictions = @ + r.mispredictions,
                 !.stat_updates = @ + r.updates,
                 !.stat_threshold_updates = @ + r.threshold_updates]

\* k warm-up branches on entry e
RECURSIVE WarmEntry(_, _, _, _)
WarmEntry(s, e, k, taken) ==
    IF k = 0 \/ s.num_entries <= e THEN s
    ELSE IF k = 1 THEN WarmTrain(s, e, taken)
    ELSE WarmEntry(WarmEntry(s, e, k \div 2, taken), e, k - (k \div 2), taken)

\* warm-up branches on every entry from e downwards: wu.even = <<k, outcome>>
\* for the entries of even index, wu.odd for those of odd index
RECURSIVE WarmUp(_, _, _)
WarmUp(s, e, wu) ==
    IF e < 0 THEN s
    ELSE LET c == IF e % 2 = 0 THEN wu.even ELSE wu.odd
         IN WarmUp(WarmEntry(s, e, c[1], c[2]), e - 1, wu)

\* The runs start after initialization, or after initialization followed by
\* a warm-up in which k branches per entry were predicted against the cold
\* table under history Ones64 and then all resolved with the same outcome.
\* The warm-ups bring the weights next to the training threshold (6 updates)
\* and to the two ends of the weight range (127 taken, 128 not-taken).
WarmUps == {[even |-> <<0, 1>>, odd |-> <<0, 1>>],
            [even |-> <<6, 1>>, odd |-> <<6, 0>>],
            [even |-> <<127, 1>>, odd |-> <<128, 0>>]}

\* An Op record of the host: the branch address, the prediction stored by
\* pred_op, the three bp_perceptron_* fields, whether the speculative update
\* was made, and (history variables) the weights the prediction read and
\* the table, the register and the number of resolved branches at the
\* moment of the prediction.
NoOp == [addr |-> Zero64, pred |-> "NONE", bp_perceptron_y_out |-> 0,
         bp_perceptron_ghist |-> Zero64, bp_perceptron_index |-> 0, spec |-> FALSE,
         seen |-> ZeroWeights,
         born |-> [table |-> <<>>, ghist |-> Zero64, resolved |-> 0]]
NoCall == [kind |-> "init", op |-> NoOp, arg |-> 0, pre |-> 0]

Init ==
    \E wu \in WarmUps :
        LET s0 == bp_perceptron_init(HistLen, TableBits)
            s == WarmUp(s0, s0.num_entries - 1, wu)
        IN /\ table = s.table
           /\ num_entries = s.num_entries
           /\ hist_len = s.hist_len
           /\ threshold = s.threshold
           /\ ghist = s.ghist
           /\ stat_predictions = s.stat_predictions
           /\ stat_mispredictions = s.stat_mispredictions
           /\ stat_updates = s.stat_updates
           /\ stat_threshold_updates = s.stat_threshold_updates
           /\ ops = <<>>
           /\ op_count = 0
           /\ last = [NoCall EXCEPT !.kind = IF wu.even[1] = 0 THEN "init" ELSE "warmup"]

(* ---------------- Scarab interface functions ---------------------------- *)
\* the sequence q without its i-th element
Remove(q, i) == [j \in 1..(Len(q) - 1) |-> IF j < i THEN q[j] ELSE q[j + 1]]

Taken(d) == IF d = "TAKEN" THEN 1 ELSE 0

\* bp_perceptron_pred_op on a newly fetched branch at address pc; the host
\* fetches a new branch only after the speculative update of the one before
pred_op(pc) ==
    /\ op_count < MaxOps
    /\ \A i \in 1..Len(ops) : ops[i].spec
    /\ LET p == bp_perceptron_predict(table, num_entries, hist_len, ghist, pc)
           op == [addr |-> pc,
                  pred |-> IF p.ret # 0 THEN "TAKEN" ELSE "NOT_TAKEN",
                  bp_perceptron_y_out |-> p.y_out,
                  bp_perceptron_ghist |-> p.saved_ghist,
                  bp_perceptron_index |-> p.saved_index,
                  spec |-> FALSE,
                  seen |-> table[p.saved_index],
                  born |-> [table |-> table, ghist |-> ghist,
                            resolved |-> op_count - Len(ops)]]
       IN /\ ops' = Append(ops, op)
          /\ last' = [kind |-> "pred", op |-> op, arg |-> pc, pre |-> Snapshot]
          /\ table' = p.table
          /\ ghist' = p.ghist
    /\ stat_predictions' = stat_predictions + 1
    /\ op_count' = op_count + 1
    /\ UNCHANGED <<num_entries, hist_len, threshold,
                   stat_mispredictions, stat_updates, stat_threshold_updates>>

\* bp_perceptron_spec_update on the branch just predicted
spec_update(i) ==
    /\ ~ops[i].spec
    /\ ghist' = bp_perceptron_shift_ghist(ghist, Taken(ops[i].pred))
    /\ ops' = [ops EXCEPT ![i].spec = TRUE]
    /\ last' = [kind |-> "spec", op |-> ops'[i], arg |-> ops[i].pred, pre |-> Snapshot]
    /\ UNCHANGED <<table, num_entries, hist_len, threshold, stats, op_count>>

\* bp_perceptron_update_op on an in-flight branch that resolves with
\* direction dir
bp_perceptron_update_op(i, dir) ==
    /\ ops[i].spec
    /\ LET r == bp_perceptron_train(table, hist_len, threshold, ghist, Taken(dir),
                                    ops[i].bp_perceptron_y_out,
                                    ops[i].bp_perceptron_ghist,
                                    ops[i].bp_perceptron_index)
       IN /\ table' = r.table
          /\ ghist' = r.ghist
          /\ stat_mispredictions' = stat_mispredictions + r.mispredictions
          /\ stat_updates' = stat_updates + r.updates
          /\ stat_threshold_updates' = stat_threshold_updates + r.threshold_updates
    /\ last' = [kind |-> "train", op |-> ops[i], arg |-> dir, pre |-> Snapshot]
    /\ UNCHANGED <<num_entries, hist_len, threshold, stat_predictions, op_count>>

\* a branch resolves; the host then drops its record
update_op(i, dir) ==
    /\ bp_perceptron_update_op(i, dir)
    /\ ops' = Remove(ops, i)

\* a branch is resolved and its record stays with the host, which may
\* resolve it again
update_op_keep(i, dir) ==
    /\ stat_updates < MaxUpdates
    /\ bp_perceptron_update_op(i, dir)
    /\ ops' = ops

\* bp_perceptron_recover_op with info->pred_global_hist = h
recover_op(h) ==
    /\ ghist' = bp_perceptron_restore_ghist(h)
    /\ last' = [kind |-> "recover", op |-> NoOp, arg |-> h, pre |-> Frame]
    /\ UNCHANGED <<table, num_entries, hist_len, threshold, stats, ops, op_count>>

\* bp_perceptron_init called again by the host (bp_init), whatever the
\* predictor has learned; the host does so between runs, with no branch in
\* flight.  The two
\* parameters are constants of the run, so they are the values that
\* hist_len and num_entries got from them in the first call.  last.arg
\* tells (history variable) whether the predictor had been used before.
init ==
    /\ last.kind \notin {"boot", "fatal"}
    /\ ops = <<>>
    /\ LET s == bp_perceptron_init_with(hist_len, num_entries)
       IN /\ table' = s.table
          /\ num_entries' = s.num_entries
          /\ hist_len' = s.hist_len
          /\ threshold' = s.threshold
          /\ ghist' = s.ghist
          /\ stat_predictions' = s.stat_predictions
          /\ stat_mispredictions' = s.stat_mispredictions
          /\ stat_updates' = s.stat_updates
          /\ stat_threshold_updates' = s.stat_threshold_updates
    /\ last' = [NoCall EXCEPT !.arg =
                    IF Snapshot = bp_perceptron_init_with(hist_len, num_entries)
                    THEN 0 ELSE 1]
    /\ UNCHANGED <<ops, op_count>>

Next ==
    \/ init
    \/ \E pc \in PCs : pred_op(pc)
    \/ \E i \in 1..Len(ops) : spec_update(i)
    \/ \E i \in 1..Len(ops), dir \in {"TAKEN", "NOT_TAKEN"} : update_op(i, dir)
    \/ \E h \in RecoverValues \cup {ops[i].bp_perceptron_ghist : i \in 1..Len(ops)} :
           recover_op(h)

Spec == Init /\ [][Next]_vars

(* ---------------- one snapshot trained repeatedly ---------------------- *)
\* After initialization the host sets the history, fetches one branch and
\* then resolves it any number of times with any outcomes.
InitCold ==
    LET s == bp_perceptron_init(HistLen, TableBits)
    IN /\ table = s.table
       /\ num_entries = s.num_entries
       /\ hist_len = s.hist_len
       /\ threshold = s.threshold
       /\ ghist = s.ghist
       /\ stat_predictions = s.stat_predictions
       /\ stat_mispredictions = s.stat_mispredictions
       /\ stat_updates = s.stat_updates
       /\ stat_threshold_updates = s.stat_threshold_updates
       /\ ops = <<>>
       /\ op_count = 0
       /\ last = NoCall

NextSat ==
    \/ \E h \in RecoverValues : op_count = 0 /\ recover_op(h)
    \/ \E pc \in PCs : op_count = 0 /\ pred_op(pc)
    \/ \E i \in 1..Len(ops) : spec_update(i)
    \/ \E i \in 1..Len(ops), dir \in {"TAKEN", "NOT_TAKEN"} : update_op_keep(i, dir)

SpecSat == InitCold /\ [][NextSat]_vars

(* ---------------- fetch gated by bp_perceptron_full --------------------- *)
\* variant: the predictor reports full while a branch is in flight
bp_perceptron_full_busy == ops # <<>>
\* return value of bp_perceptron_full
bp_perceptron_full == FALSE

\* the host asks bp_perceptron_full before it fetches a branch
full ==
    /\ last.kind # "full"
    /\ last' = [kind |-> "full", op |-> NoOp, arg |-> bp_perceptron_full,
                pre |-> Snapshot]
    /\ UNCHANGED <<table, num_entries, hist_len, threshold, ghist, stats,
                   ops, op_count>>

\* after the answer the host fetches the branch unless told to stall; the
\* other calls are made as in Spec
NextFull ==
    \/ full
    \/ last.kind = "full" /\ ~last.arg /\ \E pc \in PCs : pred_op(pc)
    \/ last.kind # "full" /\ Next

SpecFull == InitCold /\ [][NextFull]_vars

(* ---------------- branches in flight, none resolved -------------------- *)
\* the host fetches and speculates branches and recovers, and resolves none
NextOrder ==
    \/ \E pc \in PCs : pred_op(pc)
    \/ \E i \in 1..Len(ops) : spec_update(i)
    \/ \E h \in RecoverValues : recover_op(h)

SpecOrder == Init /\ [][NextOrder]_vars

(* ---------------- the speculative path --------------------------------- *)
\* After initialization (and warm-up) the host may set the history once; it
\* then fetches and speculates branches and resolves them in any order, at
\* most one between two other calls, keeping their records, and never
\* recovers.
NextPath ==
    \/ \E h \in RecoverValues : op_count = 0 /\ recover_op(h)
    \/ \E pc \in PCs : pred_op(pc)
    \/ \E i \in 1..Len(ops) : spec_update(i)
    \/ \E i \in 1..Len(ops), dir \in {"TAKEN", "NOT_TAKEN"} :
           last.kind # "train" /\ update_op_keep(i, dir)

SpecPath == Init /\ [][NextPath]_vars

(* ---------------- saturated weights at any history length -------------- *)
\* history lengths the predictor is built with (28 is the default of
\* PERCEPTRON_HIST_LEN, 64 the largest one accepted)
BoundHistLens == {HistLen, 28, PERCEPTRON_MAX_HIST_LEN}

\* a predictor of any of these history lengths, cold or warmed up
InitBound ==
    \E hl \in BoundHistLens, wu \in WarmUps :
        LET s0 == bp_perceptron_init(hl, TableBits)
            s == WarmUp(s0, s0.num_entries - 1, wu)
        IN /\ table = s.table
           /\ num_entries = s.num_entries
           /\ hist_len = s.hist_len
           /\ threshold = s.threshold
           /\ ghist = s.ghist
           /\ stat_predictions = s.stat_predictions
           /\ stat_mispredictions = s.stat_mispredictions
           /\ stat_updates = s.stat_updates
           /\ stat_threshold_updates = s.stat_threshold_updates
           /\ ops = <<>>
           /\ op_count = 0
           /\ last = [NoCall EXCEPT !.kind = IF wu.even[1] = 0 THEN "init" ELSE "warmup"]

\* the host sets the history, then fetches one branch, speculates and
\* resolves it
NextBound ==
    \/ \E h \in {Zero64, Ones64} \cup RecoverValues : op_count = 0 /\ recover_op(h)
    \/ \E pc \in PCs : op_count = 0 /\ pred_op(pc)
    \/ \E i \in 1..Len(ops) : spec_update(i)
    \/ \E i \in 1..Len(ops), dir \in {"TAKEN", "NOT_TAKEN"} : update_op(i, dir)

SpecBound == InitBound /\ [][NextBound]_vars

(* ---------------- the timestamp and retire hooks ----------------------- *)
\* variant: the retired branch is trained with its predicted direction
bp_perceptron_retire_trains(s, op) ==
    LET r == bp_perceptron_train(s.table, s.hist_len, s.threshold, s.ghist,
                                 Taken(op.pred), op.bp_perceptron_y_out,
                                 op.bp_perceptron_ghist, op.bp_perceptron_index)
    IN [s EXCEPT !.table = r.table,
                 !.stat_mispredictions = @ + r.mispredictions,
                 !.stat_updates = @ + r.updates,
                 !.stat_threshold_updates = @ + r.threshold_updates]

\* bp_perceptron_timestamp(op) and bp_perceptron_retire(op) in predictor
\* state s: the state they leave (the body of both is `(void)op;`)
bp_perceptron_timestamp(s, op) == s
bp_perceptron_retire(s, op) == s

\* the predictor state set to s
Becomes(s) ==
    /\ table' = s.table
    /\ num_entries' = s.num_entries
    /\ hist_len' = s.hist_len
    /\ threshold' = s.threshold
    /\ ghist' = s.ghist
    /\ stat_predictions' = s.stat_predictions
    /\ stat_mispredictions' = s.stat_mispredictions
    /\ stat_updates' = s.stat_updates
    /\ stat_threshold_updates' = s.stat_threshold_updates

\* the front end calls the timestamp hook for a branch at pc before its
\* prediction
timestamp(pc) ==
    /\ last.kind # "timestamp"
    /\ Becomes(bp_perceptron_timestamp(Snapshot, [NoOp EXCEPT !.addr = pc]))
    /\ last' = [kind |-> "timestamp", op |-> [NoOp EXCEPT !.addr = pc],
                arg |-> pc, pre |-> Snapshot]
    /\ UNCHANGED <<ops, op_count>>

\* the back end calls the retire hook for a branch it holds
retire(i) ==
    /\ last.kind # "retire"
    /\ Becomes(bp_perceptron_retire(Snapshot, ops[i]))
    /\ last' = [kind |-> "retire", op |-> ops[i], arg |-> i, pre |-> Snapshot]
    /\ UNCHANGED <<ops, op_count>>

NextHooks ==
    \/ \E pc \in PCs : timestamp(pc)
    \/ \E i \in 1..Len(ops) : retire(i)
    \/ \E h \in RecoverValues : op_count = 0 /\ recover_op(h)
    \/ \E pc \in PCs : pred_op(pc)
    \/ \E i \in 1..Len(ops) : spec_update(i)
    \/ \E i \in 1..Len(ops), dir \in {"TAKEN", "NOT_TAKEN"} : update_op(i, dir)

SpecHooks == Init /\ [][NextHooks]_vars

(* ---------------- standalone predictor (test/gen_trace.c) --------------- *)
\* compile-time configuration of the standalone program (#define HIST_LEN,
\* TABLE_BITS; 28 and 6 as shipped), here built with history length 4 and
\* one table bit
HIST_LEN == 4
TABLE_BITS == 1
NUM_ENTRIES == Pow2(TABLE_BITS)
THRESHOLD == (193 * HIST_LEN + 1400) \div 100

\* number of trace lines the standalone program is fed
MaxBranches == 12

\* predict(pc, &state) of the standalone program against table tbl and
\* history g
predict(tbl, g, pc) ==
    LET index == LowNat(BitAnd(Shr2(pc), FromNat(NUM_ENTRIES - 1)), 0)
        y == PredictLoop(tbl[index], 1, HIST_LEN, g, tbl[index][0])
    IN [ret |-> IF y >= 0 THEN 1 ELSE 0,
        state |-> [y_out |-> y, ghist |-> g, index |-> index]]

\* p->weights[i] += d on an int8_t, then the two clamping tests
AddInPlace(w, d) ==
    LET v == ToInt8(w + d)
    IN IF v > 127 THEN 127 ELSE IF v < -128 THEN -128 ELSE v

\* the history-weight loop of update
RECURSIVE UpdateLoop(_, _, _, _)
UpdateLoop(w, i, h, t) ==
    IF i > HIST_LEN THEN w
    ELSE UpdateLoop([w EXCEPT ![i] = AddInPlace(w[i], t * to_bipolar(h[0]))],
                    i + 1, Shr1(h), t)

(* ---------------- one update by both training rules -------------------- *)
\* the update block of the variant bp_perceptron_update (bp_perceptron.h)
\* and of the standalone update: every weight is added to in place, then
\* clamped
UpdateInPlace(w, t, g) == UpdateLoop([w EXCEPT ![0] = AddInPlace(@, t)], 1, g, t)

\* history values under which the two rules are compared
ClampHistories == {Zero64, Ones64} \cup RecoverValues

\* two copies of one perceptron, every weight at the same value of the
\* weight type
InitClamp ==
    \E w \in PERCEPTRON_WEIGHT_MIN..PERCEPTRON_WEIGHT_MAX :
        LET s == bp_perceptron_init(HIST_LEN, 1)
        IN /\ table = [e \in 0..1 |-> [j \in Slots |-> w]]
           /\ num_entries = s.num_entries
           /\ hist_len = s.hist_len
           /\ threshold = s.threshold
           /\ ghist = Zero64
           /\ stat_predictions = 0
           /\ stat_mispredictions = 0
           /\ stat_updates = 0
           /\ stat_threshold_updates = 0
           /\ ops = <<>>
           /\ op_count = 0
           /\ last = NoCall

\* the same applied update (outcome taken, snapshot history g) made to
\* entry 0 by the update block of bp_perceptron_train and to entry 1 by the
\* in-place block
update_both(taken, g) ==
    /\ op_count = 0
    /\ table' = [table EXCEPT
                    ![0] = TrainWeights(@, hist_len, taken, g),
                    ![1] = UpdateInPlace(@, TrainT(taken), g)]
    /\ stat_updates' = stat_updates + 1
    /\ op_count' = 1
    /\ last' = [kind |-> "both", op |-> NoOp, arg |-> taken, pre |-> Snapshot]
    /\ UNCHANGED <<num_entries, hist_len, threshold, ghist, stat_predictions,
                   stat_mispredictions, stat_threshold_updates, ops>>

NextClamp == \E taken \in {0, 1}, g \in ClampHistories : update_both(taken, g)

SpecClamp == InitClamp /\ [][NextClamp]_vars

\* variant: the history is shifted only when the weights were trained
update_shift_if_trained(tbl, g, taken, state) ==
    LET t == IF taken # 0 THEN 1 ELSE -1
        predicted == IF state.y_out >= 0 THEN 1 ELSE -1
        train == predicted # t \/ Abs(state.y_out) <= THRESHOLD
        w0 == [tbl[state.index] EXCEPT ![0] = AddInPlace(@, t)]
    IN [table |-> IF train
                  THEN [tbl EXCEPT ![state.index] = UpdateLoop(w0, 1, state.ghist, t)]
                  ELSE tbl,
        ghist |-> IF train
                  THEN BitOr(Shl1(g), FromNat(IF taken # 0 THEN 1 ELSE 0))
                  ELSE g,
        mispredictions |-> IF predicted # t THEN 1 ELSE 0,
        updates |-> IF train THEN 1 ELSE 0]

\* update(pc, taken, &state) of the standalone program: the table and the
\* history it leaves and the increments of its two counters
update(tbl, g, taken, state) ==
    LET t == IF taken # 0 THEN 1 ELSE -1
        predicted == IF state.y_out >= 0 THEN 1 ELSE -1
        train == predicted # t \/ Abs(state.y_out) <= THRESHOLD
        w0 == [tbl[state.index] EXCEPT ![0] = AddInPlace(@, t)]
    IN [table |-> IF train
                  THEN [tbl EXCEPT ![state.index] = UpdateLoop(w0, 1, state.ghist, t)]
                  ELSE tbl,
        ghist |-> BitOr(Shl1(g), FromNat(IF taken # 0 THEN 1 ELSE 0)),
        mispredictions |-> IF predicted # t THEN 1 ELSE 0,
        updates |-> IF train THEN 1 ELSE 0]

\* Trace files: line k has the pc q[k mod Len(q)] and the outcome
\* p[k mod Len(p)], for an outcome pattern p of period up to 3 and a pc
\* pattern q of period up to 2 over one pc of entry 0 and one of entry 1.
TracePcs == <<FromNat(8), FromNat(4)>>
Cyc(s, k) == s[((k - 1) % Len(s)) + 1]
TraceOf(p, q) == [k \in 1..MaxBranches |-> [pc |-> TracePcs[Cyc(q, k)], taken |-> Cyc(p, k)]]
Traces == {TraceOf(p, q) : p \in UNION {[1..n -> {0, 1}] : n \in 1..3},
                           q \in UNION {[1..n -> {1, 2}] : n \in 1..2}}

\* main of the standalone program up to its loop (memset, ghist = 0), or
\* bp_init of a simulator that is then driven branch by branch; the trace
\* is kept in `ops`, the number of lines consumed in `op_count`
InitTrace ==
    \E tr \in Traces, prog \in {"standalone", "simulator"} :
        LET s == bp_perceptron_init(HIST_LEN, TABLE_BITS)
        IN /\ table = IF prog = "standalone"
                      THEN [e \in 0..(NUM_ENTRIES - 1) |-> [j \in 0..HIST_LEN |-> 0]]
                      ELSE s.table
           /\ num_entries = s.num_entries
           /\ hist_len = s.hist_len
           /\ threshold = s.threshold
           /\ ghist = Zero64
           /\ stat_predictions = 0
           /\ stat_mispredictions = 0
           /\ stat_updates = 0
           /\ stat_threshold_updates = 0
           /\ ops = tr
           /\ op_count = 0
           /\ last = [kind |-> prog, op |-> NoOp, arg |-> 0, pre |-> 0]

\* one iteration of the loop of main: a trace line is read, predicted and
\* updated
trace_branch ==
    /\ last.kind = "standalone"
    /\ op_count < Len(ops)
    /\ LET line == ops[op_count + 1]
           p == predict(table, ghist, line.pc)
           u == update(table, ghist, line.taken, p.state)
       IN /\ table' = u.table
          /\ ghist' = u.ghist
          /\ stat_mispredictions' = stat_mispredictions + u.mispredictions
          /\ stat_updates' = stat_updates + u.updates
          /\ last' = [kind |-> "standalone",
                      op |-> [pred |-> p.ret, y_out |-> p.state.y_out,
                              ghist |-> p.state.ghist, index |-> p.state.index],
                      arg |-> line, pre |-> Snapshot]
    /\ stat_predictions' = stat_predictions + 1
    /\ op_count' = op_count + 1
    /\ UNCHANGED <<num_entries, hist_len, threshold, stat_threshold_updates, ops>>

\* the simulator's predictor driven in order by the same trace, as in the
\* integration of the README: bp_predict, then bp_update, which trains and
\* shifts the true outcome into the history
bp_branch ==
    /\ last.kind = "simulator"
    /\ op_count < Len(ops)
    /\ LET line == ops[op_count + 1]
           p == bp_perceptron_predict(table, num_entries, hist_len, ghist, line.pc)
           r == bp_perceptron_train(p.table, hist_len, threshold, p.ghist, line.taken,
                                    p.y_out, p.saved_ghist, p.saved_index)
       IN /\ table' = r.table
          /\ ghist' = bp_perceptron_shift_ghist(r.ghist, line.taken)
          /\ stat_mispredictions' = stat_mispredictions + r.mispredictions
          /\ stat_updates' = stat_updates + r.updates
          /\ stat_threshold_updates' = stat_threshold_updates + r.threshold_updates
          /\ last' = [kind |-> "simulator",
                      op |-> [pred |-> p.ret, y_out |-> p.y_out,
                              ghist |-> p.saved_ghist, index |-> p.saved_index],
                      arg |-> line, pre |-> Snapshot]
    /\ stat_predictions' = stat_predictions + 1
    /\ op_count' = op_count + 1
    /\ UNCHANGED <<num_entries, hist_len, threshold, ops>>

NextTrace ==
    \/ trace_branch
    \/ bp_branch

SpecTrace == InitTrace /\ [][NextTrace]_vars

(* ---------------- a branch with a constant outcome --------------------- *)
\* number of trace lines of the constant trace
MaxConstBranches == 36

\* history lengths the simulator's predictor is built with for the
\* constant trace (28 is the default of PERCEPTRON_HIST_LEN)
ConstHistLens == {1, 2, HIST_LEN, 13, 28}

\* a trace of one branch address with the same outcome on every line
ConstTrace(taken) == [k \in 1..MaxConstBranches |-> [pc |-> TracePcs[1], taken |-> taken]]

\* the standalone program, or a simulator driven branch by branch, started
\* on a constant trace
InitConst ==
    \E taken \in {0, 1}, prog \in {"standalone", "simulator"},
       hl \in ConstHistLens :
        LET s == bp_perceptron_init(hl, TABLE_BITS)
        IN /\ prog = "standalone" => hl = HIST_LEN
           /\ table = IF prog = "standalone"
                      THEN [e \in 0..(NUM_ENTRIES - 1) |-> [j \in 0..HIST_LEN |-> 0]]
                      ELSE s.table
           /\ num_entries = s.num_entries
           /\ hist_len = s.hist_len
           /\ threshold = s.threshold
           /\ ghist = Zero64
           /\ stat_predictions = 0
           /\ stat_mispredictions = 0
           /\ stat_updates = 0
           /\ stat_threshold_updates = 0
           /\ ops = ConstTrace(taken)
           /\ op_count = 0
           /\ last = [kind |-> prog, op |-> NoOp, arg |-> 0, pre |-> 0]

SpecConst == InitConst /\ [][NextTrace]_vars

(* ---------------- consecutive shifts of the history -------------------- *)
\* number of consecutive shifts
MaxShifts == 64

\* register values the shifts start from
ShiftStarts == {Zero64, Ones64, [j \in BitPos |-> j % 2]} \cup RecoverValues

\* the directions shifted in: the patterns of period 1, 2 and 3
ShiftDirs == {[k \in 1..MaxShifts |-> Cyc(p, k)] : p \in UNION {[1..n -> {0, 1}] : n \in 1..3}}

\* a predictor with the largest history length whose register holds g; the
\* directions to come are kept in `ops`, the register before the first
\* shift in `last`
InitShift ==
    \E g \in ShiftStarts, dirs \in ShiftDirs :
        LET s == bp_perceptron_init(PERCEPTRON_MAX_HIST_LEN, TableBits)
        IN /\ table = s.table
           /\ num_entries = s.num_entries
           /\ hist_len = s.hist_len
           /\ threshold = s.threshold
           /\ ghist = bp_perceptron_restore_ghist(g)
           /\ stat_predictions = 0
           /\ stat_mispredictions = 0
           /\ stat_updates = 0
           /\ stat_threshold_updates = 0
           /\ ops = dirs
           /\ op_count = 0
           /\ last = [kind |-> "shift", op |-> NoOp, arg |-> g, pre |-> 0]

\* bp_perceptron_spec_update for a branch whose direction is the next one of
\* the sequence
shift ==
    /\ op_count < Len(ops)
    /\ ghist' = bp_perceptron_shift_ghist(ghist, ops[op_count + 1])
    /\ op_count' = op_count + 1
    /\ last' = [last EXCEPT !.pre = Snapshot]
    /\ UNCHANGED <<table, num_entries, hist_len, threshold, stats, ops>>

NextShift == shift

SpecShift == InitShift /\ [][NextShift]_vars

(* ---------------- both programs ---------------------------------------- *)
\* a run of the simulator's predictor under its host, or a run of one of
\* the trace-driven programs
TraceRun == last.kind \in {"standalone", "simulator"}
InitAll == Init \/ InitTrace
NextAll ==
    \/ ~TraceRun /\ Next
    \/ TraceRun /\ NextTrace

SpecAll == InitAll /\ [][NextAll]_vars

(* ---------------- start-up with any configuration ---------------------- *)
\* largest value of the parameter PERCEPTRON_HIST_LEN that is tried
MaxHistLenParam == 66
HistLenParams == 0..MaxHistLenParam
\* values of the parameter PERCEPTRON_TABLE_BITS that are tried
TableBitsParams == {0, 1, 2, 32}

\* variant: the table gets PERCEPTRON_TABLE_BITS + 1 entries
ShiftLeftOne_plus(tb) == {tb + 1}

\* 1 << PERCEPTRON_TABLE_BITS on a 32-bit int, stored in an uns32.  The
\* shift is undefined for a count of 32 or more: builds either use the low
\* five bits of the count or produce 0.  (A count of 31 is not tried.)
ShiftLeftOne(tb) == IF tb < 31 THEN {Pow2(tb)} ELSE {0, Pow2(tb % 32)}

\* ASSERT(proc_id, cond) of the simulator: the run goes on only if cond
\* holds, otherwise the process ends
ASSERT(cond) == cond

\* variant: the history length is checked against the number of weight slots
InitAsserts_slots(hl, n) ==
    ASSERT(hl <= PERCEPTRON_MAX_HIST_LEN + 1) /\ ASSERT(n > 0)
\* the two assertions of bp_perceptron_init on the configuration
InitAsserts(hl, n) ==
    ASSERT(hl <= PERCEPTRON_MAX_HIST_LEN) /\ ASSERT(n > 0)

\* the process before bp_init: static storage is zero, the two parameters
\* have been read from the command line (kept in last.arg)
InitConfig ==
    \E hl \in HistLenParams, tb \in TableBitsParams :
        /\ table = <<>>
        /\ num_entries = 0
        /\ hist_len = 0
        /\ threshold = 0
        /\ ghist = Zero64
        /\ stat_predictions = 0
        /\ stat_mispredictions = 0
        /\ stat_updates = 0
        /\ stat_threshold_updates = 0
        /\ ops = <<>>
        /\ op_count = 0
        /\ last = [kind |-> "boot", op |-> NoOp,
                   arg |-> [hist_len |-> hl, table_bits |-> tb], pre |-> 0]

\* the first call of bp_perceptron_init: the configuration is set, then
\* asserted, then the table is allocated and cleared and the counters reset.
\* last.arg = 2 marks the first call, last.pre keeps the two parameters.
bp_init ==
    /\ last.kind = "boot"
    /\ \E n \in ShiftLeftOne(last.arg.table_bits) :
          LET hl == last.arg.hist_len
          IN IF InitAsserts(hl, n)
             THEN LET s == bp_perceptron_init_with(hl, n)
                  IN /\ table' = s.table
                     /\ num_entries' = s.num_entries
                     /\ hist_len' = s.hist_len
                     /\ threshold' = s.threshold
                     /\ ghist' = s.ghist
                     /\ stat_predictions' = s.stat_predictions
                     /\ stat_mispredictions' = s.stat_mispredictions
                     /\ stat_updates' = s.stat_updates
                     /\ stat_threshold_updates' = s.stat_threshold_updates
                     /\ last' = [NoCall EXCEPT !.arg = 2, !.pre = last.arg]
             ELSE /\ hist_len' = hl
                  /\ num_entries' = n
                  /\ threshold' = calculate_threshold(hl)
                  /\ ghist' = Zero64
                  /\ last' = [kind |-> "fatal", op |-> NoOp, arg |-> last.arg, pre |-> 0]
                  /\ UNCHANGED <<table, stats>>
    /\ UNCHANGED <<ops, op_count>>

\* the process is past a successful bp_init
Running == last.kind \notin {"boot", "fatal"}

\* after start-up the host fetches one branch, and may recover, resolve the
\* branch and, with no branch in flight, call bp_perceptron_init again
NextConfig ==
    \/ bp_init
    \/ init
    \/ \E h \in RecoverValues : Running /\ recover_op(h)
    \/ \E pc \in PCs \cup {Ones64} : Running /\ op_count = 0 /\ pred_op(pc)
    \/ \E i \in 1..Len(ops) : spec_update(i)
    \/ \E i \in 1..Len(ops), dir \in {"TAKEN", "NOT_TAKEN"} : update_op(i, dir)

SpecConfig == InitConfig /\ [][NextConfig]_vars

(* ---------------- one prediction at any address ------------------------ *)
\* largest value of PERCEPTRON_TABLE_BITS for which addresses are tried
IndexBits == 3
\* sets of pc bits above the index bits of the largest table
HighParts == {{}, {31, 32}, {63}, (IndexBits + 3)..63}
\* the pc with alignment bits `low`, the next IndexBits + 1 bits `mid` and
\* the higher bits of `hi` set
IndexPc(low, mid, hi) ==
    [j \in BitPos |-> IF j < 2 THEN (low \div Pow2(j)) % 2
                      ELSE IF j < IndexBits + 3 THEN (mid \div Pow2(j - 2)) % 2
                      ELSE IF j \in hi THEN 1 ELSE 0]
IndexPcs == {IndexPc(low, mid, hi) : low \in 0..3,
                                     mid \in 0..(Pow2(IndexBits + 1) - 1),
                                     hi \in HighParts}

InitIndex ==
    \E tb \in 1..IndexBits :
        LET s == bp_perceptron_init(HistLen, tb)
        IN /\ table = s.table
           /\ num_entries = s.num_entries
           /\ hist_len = s.hist_len
           /\ threshold = s.threshold
           /\ ghist = s.ghist
           /\ stat_predictions = s.stat_predictions
           /\ stat_mispredictions = s.stat_mispredictions
           /\ stat_updates = s.stat_updates
           /\ stat_threshold_updates = s.stat_threshold_updates
           /\ ops = <<>>
           /\ op_count = 0
           /\ last = NoCall

\* the host fetches one branch, at any of the addresses
NextIndex == \E pc \in IndexPcs : op_count = 0 /\ pred_op(pc)

SpecIndex == InitIndex /\ [][NextIndex]_vars

(* ======================================================================= *)
(* Properties.  The reference definitions below restate the arithmetic of  *)
(* the specification directly (closed forms, no loops), so that they can   *)
(* be compared with what the calls above computed.                         *)
(* ======================================================================= *)
RECURSIVE RefSum(_, _, _)
RefSum(f, a, b) == IF a > b THEN 0 ELSE f[a] + RefSum(f, a + 1, b)

\* input x_i of weight i under history h: +1 for the bias, else bipolar of bit i-1
RefX(h, i) == IF i = 0 THEN 1 ELSE IF h[i - 1] = 1 THEN 1 ELSE -1
\* y = w[0] + sum over i in 1..hl of bipolar(bit i-1 of g) * w[i]
RefY(w, hl, g) == w[0] + RefSum([i \in 1..hl |-> RefX(g, i) * w[i]], 1, hl)
RefClamp(v) == IF v > 127 THEN 127 ELSE IF v < -128 THEN -128 ELSE v
\* the entry w after one applied update with outcome t under history h
RefUpdated(w, hl, t, h) ==
    [j \in DOMAIN w |-> IF j <= hl THEN RefClamp(w[j] + t * RefX(h, j)) ELSE w[j]]
\* value of bits 16k .. 16k+15 of g
RefLimb(g, k) == RefSum([j \in 0..15 |-> g[16 * k + j] * Pow2(j)], 0, 15)
\* (pc >> 2) mod entries, from the bits of pc
RefIndex(pc, entries) == RefSum([j \in 0..27 |-> pc[j + 2] * Pow2(j)], 0, 27) % entries

\* facts about the call made last
LastT == IF last.arg = "TAKEN" THEN 1 ELSE -1
LastY == last.op.bp_perceptron_y_out
LastPredicted == IF LastY >= 0 THEN 1 ELSE -1
LastIdx == last.op.bp_perceptron_index
LastCond == LastPredicted # LastT \/ Abs(LastY) <= last.pre.threshold
LastApplied == stat_updates = last.pre.stat_updates + 1
Used == 0..hist_len

\* C1: after initialization and any sequence of predict, speculative shift,
\* train and recover calls, every weight of every entry is in [-128, 127].
C1_WeightsInRange ==
    \A e \in DOMAIN table : \A j \in Slots : table[e][j] \in (-128)..127

\* a training whose update pushed a weight against a bound, which held
C1_Witness ==
    /\ last.kind = "train"
    /\ LastApplied
    /\ \E j \in Used :
          LET w == last.pre.table[LastIdx][j]
              d == LastT * RefX(last.op.bp_perceptron_ghist, j)
          IN (w = 127 /\ d = 1) \/ (w = -128 /\ d = -1)

\* the snapshot fields of an Op record
SnapOf(o) == <<o.bp_perceptron_index, o.bp_perceptron_y_out, o.bp_perceptron_ghist>>

\* C3: predict is read-only and deterministic: a predict call leaves the
\* table, the history register, the table size, the history length and the
\* threshold as they were, and two predict calls for the same pc against the
\* same weights and the same history value return the same direction and the
\* same snapshot.
C3_PredictReadOnlyDeterministic ==
    /\ last.kind = "pred" =>
          /\ table = last.pre.table
          /\ ghist = last.pre.ghist
          /\ num_entries = last.pre.num_entries
          /\ hist_len = last.pre.hist_len
          /\ threshold = last.pre.threshold
    /\ \A i, j \in 1..Len(ops) :
          (/\ ops[i].addr = ops[j].addr
           /\ ops[i].seen = ops[j].seen
           /\ ops[i].bp_perceptron_ghist = ops[j].bp_perceptron_ghist)
          => (ops[i].pred = ops[j].pred /\ SnapOf(ops[i]) = SnapOf(ops[j]))

\* a second prediction of a pc made, after other calls, against the weights
\* and the history the first one saw, with a raw output that is not zero
C3_Witness ==
    /\ last.kind = "pred"
    /\ Len(ops) = 2
    /\ ops[1].addr = ops[2].addr
    /\ ops[1].seen = ops[2].seen
    /\ ops[1].bp_perceptron_ghist = ops[2].bp_perceptron_ghist
    /\ ops[2].bp_perceptron_y_out # 0
    /\ ops[1].spec

\* C4: predict computes y = w[0] + sum of bipolar(bit i-1 of the history) *
\* w[i] over i in 1..historyLength on the entry at index(pc), and returns
\* taken exactly when y >= 0.
C4_PredictOutput ==
    last.kind = "pred" =>
        LET w == last.pre.table[RefIndex(last.arg, last.pre.num_entries)]
            y == RefY(w, last.pre.hist_len, last.pre.ghist)
        IN /\ last.op.bp_perceptron_y_out = y
           /\ (last.op.pred = "TAKEN") <=> (y >= 0)
           /\ (last.op.pred = "NOT_TAKEN") <=> (y < 0)

\* a not-taken prediction from weights that differ between history
\* positions, under a history whose two most recent bits differ
C4_Witness ==
    /\ last.kind = "pred"
    /\ last.op.bp_perceptron_y_out < 0
    /\ last.op.pred = "NOT_TAKEN"
    /\ last.op.seen[1] # last.op.seen[2]
    /\ last.pre.ghist[0] # last.pre.ghist[1]

\* contents of the snapshot just returned by predict
C5_SnapshotContents ==
    last.kind = "pred" =>
        /\ last.op.bp_perceptron_index = RefIndex(last.arg, last.pre.num_entries)
        /\ last.op.bp_perceptron_y_out =
               RefY(last.pre.table[last.op.bp_perceptron_index],
                    last.pre.hist_len, last.pre.ghist)
        /\ \A b \in BitPos : last.op.bp_perceptron_ghist[b] = last.pre.ghist[b]
        /\ ops[Len(ops)] = last.op

\* a step of the predictor keeps the snapshots of the in-flight branches
C5_SnapshotKept ==
    /\ last'.kind = "pred" =>
          \A i \in 1..Len(ops) : SnapOf(ops'[i]) = SnapOf(ops[i])
    /\ last'.kind \in {"spec", "recover", "init"} =>
          /\ Len(ops') = Len(ops)
          /\ \A i \in 1..Len(ops) : SnapOf(ops'[i]) = SnapOf(ops[i])
    /\ last'.kind = "train" =>
          \E k \in 1..Len(ops) :
              /\ ops[k] = last'.op
              /\ Len(ops') = Len(ops) - 1
              /\ \A i \in 1..Len(ops') :
                    SnapOf(ops'[i]) = SnapOf(ops[IF i < k THEN i ELSE i + 1])

\* C5: every snapshot returned by predict holds index(pc), the computed y
\* and all 64 bits of the history register, and every step of the predictor
\* leaves the snapshots of the branches in flight as they were captured.
C5_Snapshot == []C5_SnapshotContents /\ [][C5_SnapshotKept]_vars

\* a snapshot with history bits set above the bits in use, still in flight
\* after the register was shifted and recovered and the table trained
C5_Witness ==
    /\ last.kind = "train"
    /\ LastApplied
    /\ Len(ops) = 1
    /\ ops[1].bp_perceptron_ghist[63] = 1
    /\ ops[1].bp_perceptron_ghist # ghist
    /\ ops[1].bp_perceptron_index = LastIdx
    /\ ops[1].seen # table[LastIdx]

\* C6: training branch A with its snapshot, after the history was advanced
\* for later branches, changes entry A.index by t * x_i with x_i from the
\* bits of A's history snapshot (up to the clamp at the bounds): the table
\* after the call is determined by the table before it, the snapshot and
\* the outcome, whatever the live register holds.
C6_SnapshotIsolation ==
    last.kind = "train" =>
        /\ table = IF LastCond
                   THEN [last.pre.table EXCEPT ![LastIdx] =
                            RefUpdated(last.pre.table[LastIdx], last.pre.hist_len,
                                       LastT, last.op.bp_perceptron_ghist)]
                   ELSE last.pre.table
        /\ LastCond =>
               \A i \in Used :
                  LET d == LastT * RefX(last.op.bp_perceptron_ghist, i)
                      old == last.pre.table[LastIdx][i]
                  IN (old + d \in (-128)..127) => table[LastIdx][i] - old = d

\* a branch trained while a younger branch is in flight and the live
\* register differs from its snapshot in the bits in use
C6_Witness ==
    /\ last.kind = "train"
    /\ LastApplied
    /\ Len(ops) = 1
    /\ ops[1].spec
    /\ \E b \in 0..(hist_len - 1) : last.pre.ghist[b] # last.op.bp_perceptron_ghist[b]
    /\ table # last.pre.table

\* the weights of the entry the last training named, before and after
LastOld == last.pre.table[LastIdx]
LastNew == table[LastIdx]

\* C7: train applies the weight update if and only if predicted # t or
\* |rawOutput| <= threshold; otherwise the whole table is left unchanged.
\* An applied update changes the table whenever some weight in use is
\* strictly inside the weight range.
C7_UpdateCondition ==
    last.kind = "train" =>
        /\ stat_updates \in {last.pre.stat_updates, last.pre.stat_updates + 1}
        /\ LastApplied <=> LastCond
        /\ ~LastCond => table = last.pre.table
        /\ LastCond => LastNew = RefUpdated(LastOld, last.pre.hist_len, LastT,
                                            last.op.bp_perceptron_ghist)
        /\ (LastCond /\ \E j \in Used : LastOld[j] \in (-127)..126)
              => table # last.pre.table

\* a correct prediction whose raw output is exactly the threshold, trained
C7_Witness ==
    /\ last.kind = "train"
    /\ LastPredicted = LastT
    /\ Abs(LastY) = threshold
    /\ LastApplied
    /\ table # last.pre.table

\* C8: an applied update sets every weight i in 0..historyLength of the
\* snapshot's entry to saturate(w[i] + t * x_i), x_0 = +1 and x_i = bipolar
\* of bit i-1 of the snapshot's history: each weight moves by exactly one
\* step or stays at a bound.
C8_UpdateRule ==
    (last.kind = "train" /\ LastApplied) =>
        \A i \in Used :
            LET x == IF i = 0 THEN 1
                     ELSE IF last.op.bp_perceptron_ghist[i - 1] = 1 THEN 1 ELSE -1
                v == LastOld[i] + LastT * x
            IN /\ LastNew[i] = IF v > 127 THEN 127 ELSE IF v < -128 THEN -128 ELSE v
               /\ \/ LastNew[i] - LastOld[i] \in {-1, 1}
                  \/ LastNew[i] = LastOld[i] /\ LastOld[i] \in {-128, 127}

\* an applied update under a history whose two most recent bits differ, in
\* which one weight stays at a bound and another moves
C8_Witness ==
    /\ last.kind = "train"
    /\ LastApplied
    /\ last.op.bp_perceptron_ghist[0] # last.op.bp_perceptron_ghist[1]
    /\ \E i, j \in Used : LastNew[i] = LastOld[i] /\ LastNew[j] # LastOld[j]

\* C9: train never changes the history register and never changes an entry
\* other than the one at snapshot.index; predict does not write the register
\* either, so it is written by the speculative shift, recover and
\* initialization only.
C9_TrainFrame ==
    /\ last.kind = "train" =>
          /\ ghist = last.pre.ghist
          /\ \A e \in DOMAIN table : e # LastIdx => table[e] = last.pre.table[e]
          /\ DOMAIN table = DOMAIN last.pre.table
    /\ last.kind = "pred" => ghist = last.pre.ghist

\* an applied training of one entry while another entry holds non-zero
\* weights and the register holds a history other than the snapshot's
C9_Witness ==
    /\ last.kind = "train"
    /\ LastApplied
    /\ ghist # last.op.bp_perceptron_ghist
    /\ ghist # Zero64
    /\ \E e \in DOMAIN table : e # LastIdx /\ table[e] # ZeroWeights

\* C10: the speculative update sets ghist to ((ghist << 1) | d) mod 2^64,
\* d = 1 iff the predicted direction is taken: the old bit 63 is discarded,
\* the new bit 0 is d, and the table is unchanged.  The arithmetic is
\* stated on the four 16-bit limbs of the register.
C10_SpeculativeShift ==
    last.kind = "spec" =>
        LET old == last.pre.ghist
            d == IF last.op.pred = "TAKEN" THEN 1 ELSE 0
            carry(k) == IF k = 0 THEN d ELSE RefLimb(old, k - 1) \div 32768
        IN /\ \A k \in 0..3 :
                 RefLimb(ghist, k) = (2 * RefLimb(old, k) + carry(k)) % 65536
           /\ ghist[0] = d
           /\ \A j \in 1..63 : ghist[j] = old[j - 1]
           /\ table = last.pre.table

\* a shift of a not-taken prediction into a register whose bit 63 is set
C10_Witness ==
    /\ last.kind = "spec"
    /\ last.pre.ghist[63] = 1
    /\ last.op.pred = "NOT_TAKEN"
    /\ ghist[0] = 0
    /\ ghist # last.pre.ghist

\* C2: saturation sticks and never wraps: a weight at 127 that receives +1
\* stays 127, a weight at -128 that receives -1 stays -128, and a weight
\* that starts at 0 and receives only +1 (only -1) deltas is min(n, 127)
\* (max(-n, -128)) after n applied updates: it reaches the bound after 127
\* (128) updates and stays there on every later one.
C2_SaturationSticks ==
    /\ (last.kind = "train" /\ LastApplied) =>
          \A i \in Used :
              LET d == LastT * RefX(last.op.bp_perceptron_ghist, i)
              IN /\ (LastOld[i] = 127 /\ d = 1) => LastNew[i] = 127
                 /\ (LastOld[i] = -128 /\ d = -1) => LastNew[i] = -128
    /\ \A k \in 1..Len(ops) :
          LET e == ops[k].bp_perceptron_index
              h == ops[k].bp_perceptron_ghist
              n == stat_updates
              up == IF n < 127 THEN n ELSE 127
              down == IF n < 128 THEN -n ELSE -128
          IN /\ stat_mispredictions = 0 =>
                    \A i \in Used : table[e][i] = IF RefX(h, i) = 1 THEN up ELSE down
             /\ stat_threshold_updates = 0 =>
                    \A i \in Used : table[e][i] = IF RefX(h, i) = 1 THEN down ELSE up

\* the 130th update in a row with delta +1 on the bias weight and -1 on a
\* history weight: the one stays 127 and the other -128
C2_Witness ==
    /\ last.kind = "train"
    /\ LastApplied
    /\ stat_updates = 130
    /\ stat_mispredictions = 0
    /\ LastOld[0] = 127 /\ LastNew[0] = 127
    /\ \E i \in Used : LastOld[i] = -128 /\ LastNew[i] = -128

\* C11: recover(h) sets the history register to exactly h, all 64 bits, from
\* any state, and leaves the weight table (and everything else) unchanged;
\* so a recover with a history value captured before one or more shifts
\* brings the register back to that value, and a second recover(h) would
\* store the value the register already holds.
C11_RecoverExact ==
    last.kind = "recover" =>
        /\ \A b \in BitPos : ghist[b] = last.arg[b]
        /\ Frame = last.pre
        /\ bp_perceptron_restore_ghist(last.arg) = ghist

\* a recover with the history captured by an in-flight branch, bit 63 set,
\* after the speculative shift of that branch had changed the register
C11_Witness ==
    /\ last.kind = "recover"
    /\ last.arg[63] = 1
    /\ ghist = last.arg
    /\ \E i \in 1..Len(ops) :
          /\ ops[i].spec
          /\ ops[i].bp_perceptron_ghist = last.arg
          /\ ops[i].pred = "NOT_TAKEN"
          /\ last.arg[0] = 1

\* C12: a branch squashed without resolving leaves no trace: after predict,
\* the speculative shift, any further predictions and shifts of younger
\* branches and then recover with the history snapshot of the first branch,
\* no branch having been trained in between, the weight table and the
\* history register are what they were before the first predict.
C12_SquashLeavesNoTrace ==
    last.kind = "recover" =>
        \A i \in 1..Len(ops) :
            ( /\ ops[i].spec
              /\ last.arg = ops[i].bp_perceptron_ghist
              /\ op_count - Len(ops) = ops[i].born.resolved )
            => /\ table = ops[i].born.table
               /\ ghist = ops[i].born.ghist

\* the recovery of the older of two squashed branches: the younger one was
\* predicted under the advanced history, the table holds learned weights
C12_Witness ==
    /\ last.kind = "recover"
    /\ Len(ops) >= 2
    /\ ops[1].spec /\ ops[2].spec
    /\ last.arg = ops[1].bp_perceptron_ghist
    /\ op_count - Len(ops) = ops[1].born.resolved
    /\ ops[2].bp_perceptron_ghist # ops[1].bp_perceptron_ghist
    /\ ops[1].born.ghist[63] = 1
    /\ \E e \in DOMAIN table : table[e] # ZeroWeights
    /\ ghist = ops[1].born.ghist

\* C13: the history advances by exactly one bit position for every branch,
\* mispredicted or not, trained or not: the speculative update of the
\* simulator shifts the predicted direction in unconditionally, and in the
\* standalone program every update call shifts the outcome in, also when
\* the training condition is false; after n trace lines the register holds
\* the last outcomes, most recent in bit 0.
C13_ShiftEveryBranch ==
    /\ last.kind = "spec" =>
           /\ ghist[0] = (IF last.op.pred = "TAKEN" THEN 1 ELSE 0)
           /\ \A j \in 1..63 : ghist[j] = last.pre.ghist[j - 1]
    /\ (TraceRun /\ op_count > 0) =>
           /\ ghist[0] = last.arg.taken
           /\ \A j \in 1..63 : ghist[j] = last.pre.ghist[j - 1]
           /\ \A j \in BitPos :
                 ghist[j] = IF j < op_count THEN ops[op_count - j].taken ELSE 0

\* a branch of the standalone program that was predicted correctly with a
\* raw output beyond the threshold: no weight changed, the history moved on
C13_Witness ==
    /\ last.kind = "standalone"
    /\ op_count > 0
    /\ stat_updates = last.pre.stat_updates
    /\ stat_mispredictions = last.pre.stat_mispredictions
    /\ table = last.pre.table
    /\ last.arg.taken = 0
    /\ last.pre.ghist[0] = 1
    /\ ghist # last.pre.ghist

\* the trace of one pc of entry 0 whose outcomes alternate taken, not-taken
AlternatingTrace == TraceOf(<<1, 0>>, <<1>>)

\* C14: with history length 4, 2 entries (threshold 21), cold start and the
\* alternating trace on one pc of entry 0, each branch being predicted,
\* trained with its outcome and then shifted into the history: the only
\* misprediction is on the 2nd branch, branches 1 to 8 are trained, entry 0
\* holds (0, -8, 6, -6, 4) after the 8th branch, entry 1 stays zero, and
\* from the 9th branch on every prediction is correct and no weight changes.
C14_AlternatingScenario ==
    (TraceRun /\ ops = AlternatingTrace) =>
        /\ hist_len = 4 /\ num_entries = 2 /\ threshold = 21
        /\ stat_predictions = op_count
        /\ stat_mispredictions = (IF op_count >= 2 THEN 1 ELSE 0)
        /\ stat_updates = (IF op_count <= 8 THEN op_count ELSE 8)
        /\ op_count >= 1 =>
              /\ last.op.index = 0
              /\ (last.op.pred # last.arg.taken) <=> (op_count = 2)
        /\ op_count >= 8 =>
              \A j \in 0..4 : table[0][j] = <<0, -8, 6, -6, 4>>[j + 1]
        /\ \A j \in DOMAIN table[1] : table[1][j] = 0
        /\ op_count >= 9 => table = last.pre.table

\* the 12th branch of the scenario on the simulator's predictor
C14_Witness ==
    /\ last.kind = "simulator"
    /\ ops = AlternatingTrace
    /\ op_count = 12
    /\ stat_mispredictions = 1
    /\ stat_updates = 8
    /\ table[0][1] = -8
    /\ last.op.y_out = -24

\* g + 2^k modulo 2^64
RefAddPow2(g, k) ==
    [j \in BitPos |-> IF j < k THEN g[j]
                      ELSE (g[j] + (IF \A i \in k..(j - 1) : g[i] = 1 THEN 1 ELSE 0)) % 2]

\* C15: index(pc) = (pc >> 2) mod tableSize for every 64-bit pc: it is in
\* [0, tableSize), the two low-order pc bits do not affect it, pc and
\* pc + 4 * tableSize map to the same entry, and so the snapshot produced
\* by predict names an entry of the table.
C15_IndexFunction ==
    \A i \in 1..Len(ops) :
        LET pc == ops[i].addr
            idx == ops[i].bp_perceptron_index
            k == CHOOSE b \in 2..40 : Pow2(b - 2) = num_entries
        IN /\ idx = RefIndex(pc, num_entries)
           /\ idx \in 0..(num_entries - 1)
           /\ idx \in DOMAIN table
           /\ \A a \in {0, 1}, b \in {0, 1} :
                 compute_index([pc EXCEPT ![0] = a, ![1] = b], num_entries) = idx
           /\ compute_index(RefAddPow2(pc, k), num_entries) = idx

\* a prediction at a pc with both alignment bits and bit 63 set that maps
\* to the last of 8 entries, and for which adding 4 * tableSize carries
C15_Witness ==
    /\ Len(ops) = 1
    /\ num_entries = 8
    /\ ops[1].addr[0] = 1 /\ ops[1].addr[1] = 1
    /\ ops[1].addr[5] = 1
    /\ ops[1].addr[63] = 1
    /\ ops[1].bp_perceptron_index = 7

\* threshold values quoted from the paper's configurations
RefThresholds == [h \in {12, 22, 28, 34, 36, 59} |->
                     CASE h = 12 -> 37 [] h = 22 -> 56 [] h = 28 -> 68
                       [] h = 34 -> 79 [] h = 36 -> 83 [] h = 59 -> 127]

\* C16: the threshold derived at initialization is floor(1.93 * h + 14) for
\* every history length h in 1..64, that is the integer k with
\* 100 k <= 193 h + 1400 < 100 (k + 1); in particular 37, 56, 68, 79, 83
\* and 127 for h = 12, 22, 28, 34, 36 and 59.  The value 1.93 h + 14 is
\* never within 10^-5 of an integer, so the rounding of the double product
\* cannot move the truncation.
C16_Threshold ==
    (last.kind # "boot" /\ hist_len \in 1..64) =>
        /\ 100 * threshold <= 193 * hist_len + 1400
        /\ 193 * hist_len + 1400 < 100 * (threshold + 1)
        /\ (193000 * hist_len + 1400000 - 1) \div 100000 = threshold
        /\ (193000 * hist_len + 1400000 + 1) \div 100000 = threshold
        /\ hist_len \in DOMAIN RefThresholds => threshold = RefThresholds[hist_len]

\* a predictor initialized with history length 59
C16_Witness ==
    /\ last.kind = "init"
    /\ hist_len = 59
    /\ threshold = 127

\* the state in which a call of bp_perceptron_init leaves the predictor
InitialState ==
    /\ DOMAIN table = 0..(num_entries - 1)
    /\ \A e \in DOMAIN table : \A j \in Slots : table[e][j] = 0
    /\ ghist = Zero64
    /\ 100 * threshold <= 193 * hist_len + 1400
    /\ 193 * hist_len + 1400 < 100 * (threshold + 1)
    /\ stat_predictions = 0
    /\ stat_mispredictions = 0
    /\ stat_updates = 0
    /\ stat_threshold_updates = 0

\* C17: every call of bp_perceptron_init that returns leaves all weights of
\* all 2^PERCEPTRON_TABLE_BITS entries zero, the history register zero, the
\* threshold at its derived value and the four counters zero; a later call,
\* from whatever state, keeps the configuration and leaves this same state.
C17_InitState ==
    [][last'.kind = "init" =>
          /\ InitialState'
          /\ last.kind = "boot" =>
                /\ hist_len' = last.arg.hist_len
                /\ last.arg.table_bits < 31 =>
                       num_entries' = Pow2(last.arg.table_bits)
          /\ last.kind # "boot" =>
                /\ hist_len' = hist_len
                /\ num_entries' = num_entries
                /\ threshold' = threshold]_vars

\* bp_perceptron_init called again on a used predictor with four entries and
\* the longest history
C17_Witness ==
    /\ last.kind = "init"
    /\ last.arg = 1
    /\ hist_len = 64
    /\ num_entries = 4
    /\ table[3][64] = 0

\* every weight of every entry of table tbl is zero
AllZero(tbl) == \A e \in DOMAIN tbl : \A j \in Slots : tbl[e][j] = 0

\* C18: a prediction made against a table whose weights are all zero has raw
\* output 0 and direction taken, at every address, for every history length
\* and for every value of the history register (zero or not).
C18_ColdStart ==
    (last.kind = "pred" /\ AllZero(last.pre.table)) =>
        /\ last.op.bp_perceptron_y_out = 0
        /\ last.op.pred = "TAKEN"
        /\ table = last.pre.table

\* a cold prediction with the longest history in the last of four entries,
\* 63 of the 64 history bits set
C18_Witness ==
    /\ last.kind = "pred"
    /\ AllZero(last.pre.table)
    /\ hist_len = 64
    /\ num_entries = 4
    /\ last.pre.ghist \in RecoverValues
    /\ last.op.addr = Ones64
    /\ last.op.bp_perceptron_index = 3
    /\ last.op.pred = "TAKEN"

\* n is a power of two (one that 1 << k gives for a defined shift, k < 31)
IsPowerOfTwo(n) == \E k \in 0..30 : n = Pow2(k)

\* C19: a start with PERCEPTRON_HIST_LEN above 64, or with a table size that
\* is zero or not a power of two, ends in bp_perceptron_init.  Whenever the
\* stored configuration is of that kind, the process is before its first
\* call or has ended there: no table was allocated, no branch was predicted,
\* speculated, trained or recovered; and every call made in a running
\* predictor finds a history that fits the weights and a table whose size is
\* the power of two that indexes it.
C19_InvalidConfigFatal ==
    /\ (hist_len > PERCEPTRON_MAX_HIST_LEN \/ ~IsPowerOfTwo(num_entries)) =>
          /\ last.kind \in {"boot", "fatal"}
          /\ table = <<>>
          /\ ops = <<>>
          /\ op_count = 0
          /\ stat_predictions = 0
          /\ stat_updates = 0
    /\ last.kind = "fatal" =>
          \/ last.arg.hist_len > PERCEPTRON_MAX_HIST_LEN
          \/ num_entries = 0
    /\ last.kind \in {"pred", "spec", "update", "recover"} =>
          /\ hist_len <= PERCEPTRON_MAX_HIST_LEN
          /\ IsPowerOfTwo(num_entries)
          /\ DOMAIN table = 0..(num_entries - 1)
          /\ \A e \in DOMAIN table : DOMAIN table[e] = Slots

\* a start with history length 65 and a valid table size has ended in the
\* first assertion
C19_Witness ==
    /\ last.kind = "fatal"
    /\ last.arg.hist_len = PERCEPTRON_MAX_HIST_LEN + 1
    /\ last.arg.table_bits = 2
    /\ hist_len = PERCEPTRON_MAX_HIST_LEN + 1
    /\ num_entries = 4
    /\ table = <<>>

\* C20: bp_perceptron_init is fatal for every configuration outside
\* PERCEPTRON_HIST_LEN in 1..64 and PERCEPTRON_TABLE_BITS >= 1, the lower
\* bounds included: a first call that returned was given a history length
\* of at least 1 and at most 64 and at least one table bit, and a running
\* predictor has at least one history bit in use and at least two entries.
C20_LowerBoundsFatal ==
    /\ (last.kind = "init" /\ last.arg = 2) =>
          /\ last.pre.hist_len \in 1..PERCEPTRON_MAX_HIST_LEN
          /\ last.pre.table_bits >= 1
    /\ Running => (hist_len >= 1 /\ num_entries >= 2)

\* a predictor started with history length 0 and zero table bits has
\* predicted a branch from the bias weight of its only entry
C20_Witness ==
    /\ last.kind = "pred"
    /\ hist_len = 0
    /\ num_entries = 1
    /\ threshold = 14
    /\ last.op.bp_perceptron_index = 0
    /\ last.op.pred = "TAKEN"

\* C21: in every state after a bp_perceptron_init that returned, num_entries
\* is a power of two, 2^PERCEPTRON_TABLE_BITS when set by the first call,
\* and the table has that many entries; num_entries, hist_len and threshold
\* are changed by no later call (pred_op, spec_update, update_op,
\* recover_op, a repeated init).
C21_ConfigFixed ==
    [][/\ last'.kind \notin {"boot", "fatal"} =>
             /\ IsPowerOfTwo(num_entries')
             /\ DOMAIN table' = 0..(num_entries' - 1)
       /\ (last.kind = "boot" /\ last'.kind = "init"
             /\ last.arg.table_bits < 31) =>
             num_entries' = Pow2(last.arg.table_bits)
       /\ last.kind \notin {"boot", "fatal"} =>
             /\ num_entries' = num_entries
             /\ hist_len' = hist_len
             /\ threshold' = threshold
             /\ last'.kind \notin {"boot", "fatal"}]_vars

\* a predictor with four entries and the longest history after a branch was
\* fetched, speculated, recovered and trained
C21_Witness ==
    /\ last.kind = "train"
    /\ num_entries = 4
    /\ hist_len = PERCEPTRON_MAX_HIST_LEN
    /\ threshold = 137
    /\ stat_updates = 1
    /\ ghist \in RecoverValues
    /\ \E e \in DOMAIN table : table[e] # ZeroWeights

\* the four counters of a predictor state
CountersOf(s) == <<s.stat_predictions, s.stat_mispredictions, s.stat_updates,
                   s.stat_threshold_updates>>
Counters == <<stat_predictions, stat_mispredictions, stat_updates,
              stat_threshold_updates>>

\* C22: the statistics are exact.  A predict call adds one to predictions
\* and nothing else; a train call adds one to mispredictions iff the sign
\* of the snapshot's raw output (>= 0 is taken) differs from the outcome,
\* one to updates iff the update is applied, one to the low-confidence
\* updates iff it is applied and the prediction was correct; the
\* speculative shift and recover change no counter.  What predict returns
\* and what train writes are given by functions of the table, the history,
\* the pc, the snapshot and the outcome, in which no counter occurs.
C22_StatisticsExact ==
    /\ last.kind = "pred" =>
          /\ Counters = [CountersOf(last.pre) EXCEPT ![1] = @ + 1]
          /\ LastIdx = RefIndex(last.arg, num_entries)
          /\ LastY = RefY(last.pre.table[LastIdx], hist_len, last.pre.ghist)
          /\ last.op.pred = (IF LastY >= 0 THEN "TAKEN" ELSE "NOT_TAKEN")
    /\ last.kind = "train" =>
          LET mis == (LastY >= 0) # (last.arg = "TAKEN")
              applied == mis \/ Abs(LastY) <= threshold
          IN /\ stat_predictions = last.pre.stat_predictions
             /\ stat_mispredictions =
                    last.pre.stat_mispredictions + (IF mis THEN 1 ELSE 0)
             /\ stat_updates = last.pre.stat_updates + (IF applied THEN 1 ELSE 0)
             /\ stat_threshold_updates = last.pre.stat_threshold_updates +
                    (IF applied /\ ~mis THEN 1 ELSE 0)
             /\ table = IF applied
                        THEN [last.pre.table EXCEPT ![LastIdx] =
                                 RefUpdated(@, hist_len, LastT,
                                            last.op.bp_perceptron_ghist)]
                        ELSE last.pre.table
    /\ last.kind \in {"spec", "recover"} => Counters = CountersOf(last.pre)

\* a correct prediction trained because its raw output is within the
\* threshold, counted as an update and a low-confidence update, in a
\* predictor that has counted mispredictions before
C22_Witness ==
    /\ last.kind = "train"
    /\ (LastY >= 0) = (last.arg = "TAKEN")
    /\ stat_updates = last.pre.stat_updates + 1
    /\ stat_threshold_updates = last.pre.stat_threshold_updates + 1
    /\ stat_mispredictions = last.pre.stat_mispredictions
    /\ stat_mispredictions > 0
    /\ stat_updates > stat_threshold_updates
    /\ table # last.pre.table

\* C23: bp_perceptron_full returns FALSE in every state in which it is
\* called, after any sequence of predictions, speculative updates,
\* trainings, recoveries and initializations and with any number of branches
\* in flight, and it leaves the table, the configuration, the history
\* register, the counters and the Op records as they were.
C23_NeverFull ==
    [][last'.kind = "full" =>
          /\ last'.arg = FALSE
          /\ Snapshot' = Snapshot
          /\ ops' = ops
          /\ last'.pre = Snapshot]_vars

\* bp_perceptron_full called with the largest number of branches in flight,
\* all speculated, and the history register recovered
C23_Witness ==
    /\ last.kind = "full"
    /\ last.arg = FALSE
    /\ Len(ops) = MaxOps
    /\ \A i \in 1..Len(ops) : ops[i].spec
    /\ ghist \in RecoverValues
    /\ stat_predictions = MaxOps

\* bp_perceptron_train for Op record a resolving with direction d, against
\* table tbl
TrainOp(tbl, a, d) ==
    bp_perceptron_train(tbl, hist_len, threshold, ghist, Taken(d),
                        a.bp_perceptron_y_out, a.bp_perceptron_ghist,
                        a.bp_perceptron_index)
\* the table and the counter increments after a resolves with da and then b
\* with db
TrainTwo(a, da, b, db) ==
    LET r1 == TrainOp(table, a, da)
        r2 == TrainOp(r1.table, b, db)
    IN [table |-> r2.table,
        counts |-> <<r1.mispredictions + r2.mispredictions,
                     r1.updates + r2.updates,
                     r1.threshold_updates + r2.threshold_updates>>]
Dirs == {"TAKEN", "NOT_TAKEN"}
\* the update of a resolving with d is applied
Applies(a, d) ==
    ((a.bp_perceptron_y_out >= 0) # (d = "TAKEN"))
        \/ Abs(a.bp_perceptron_y_out) <= threshold
\* the step t * x_k of weight k when a resolves with d
Delta(a, d, k) == (IF d = "TAKEN" THEN 1 ELSE -1) * RefX(a.bp_perceptron_ghist, k)
\* both updates are applied to the same entry and pull some weight that
\* stands at a bound of the range in opposite directions
ClampConflict(a, da, b, db) ==
    /\ Applies(a, da) /\ Applies(b, db)
    /\ a.bp_perceptron_index = b.bp_perceptron_index
    /\ \E k \in Used :
          /\ Delta(a, da, k) # Delta(b, db, k)
          /\ table[a.bp_perceptron_index][k] \in {-128, 127}

\* C24 as stated: for any two branches in flight, training one and then the
\* other leaves the same weight table and the same statistics as training
\* them in the other order, whatever the entries and the outcomes.
C24_OrderIndependent ==
    \A i, j \in 1..Len(ops) : \A da, db \in Dirs :
        i < j => TrainTwo(ops[i], da, ops[j], db) = TrainTwo(ops[j], db, ops[i], da)

\* C24 amended: the statistics and the decision to update never depend on
\* the order; the tables of the two orders agree except where both updates
\* pull a weight standing at -128 or 127 of one entry in opposite
\* directions: there, and only there, the clamp makes the last update win
\* and the two orders differ, by one step in each such weight.
C24_OrderUpToClamp ==
    \A i, j \in 1..Len(ops) : \A da, db \in Dirs :
        i < j =>
            LET ab == TrainTwo(ops[i], da, ops[j], db)
                ba == TrainTwo(ops[j], db, ops[i], da)
            IN /\ ab.counts = ba.counts
               /\ (ab.table = ba.table) <=> ~ClampConflict(ops[i], da, ops[j], db)
               /\ \A e \in DOMAIN table : \A k \in Slots :
                     /\ ab.table[e][k] - ba.table[e][k] \in {-1, 0, 1}
                     /\ ab.table[e][k] # ba.table[e][k] =>
                           /\ e = ops[i].bp_perceptron_index
                           /\ table[e][k] \in {-128, 127}
                           /\ Delta(ops[i], da, k) # Delta(ops[j], db, k)

\* two mispredicted branches of one saturated entry in flight, predicted
\* under different histories: the two orders agree on the counters and on
\* the weights pulled the same way, and differ by one at a weight that
\* stood at 127
C24_Witness ==
    /\ Len(ops) = 2
    /\ ops[1].bp_perceptron_index = ops[2].bp_perceptron_index
    /\ ops[1].bp_perceptron_ghist # ops[2].bp_perceptron_ghist
    /\ \E da, db \in Dirs :
          LET ab == TrainTwo(ops[1], da, ops[2], db)
              ba == TrainTwo(ops[2], db, ops[1], da)
              e == ops[1].bp_perceptron_index
          IN /\ ClampConflict(ops[1], da, ops[2], db)
             /\ ab.counts = ba.counts
             /\ ab.counts[1] = 2
             /\ \E k \in Used : /\ table[e][k] = 127
                                  /\ {ab.table[e][k], ba.table[e][k]} = {126, 127}
             /\ \E k \in Used : ab.table[e][k] = ba.table[e][k]
                                  /\ ab.table[e][k] # table[e][k]

\* C25: predictions see the speculative path.  With no recovery after the
\* first fetch, the history snapshot of each branch is the snapshot of the
\* branch fetched before it shifted left by one, bit 63 dropped, with that
\* branch's predicted direction in bit 0, whether or not the earlier branch
\* has been trained in between.
C25_SpeculativePath ==
    \A i \in 1..(Len(ops) - 1) :
        /\ ops[i].spec
        /\ \A j \in BitPos :
              ops[i + 1].bp_perceptron_ghist[j] =
                  IF j = 0 THEN (IF ops[i].pred = "TAKEN" THEN 1 ELSE 0)
                  ELSE ops[i].bp_perceptron_ghist[j - 1]

\* the second branch was fetched after the first, predicted not-taken under
\* a history with bit 63 set, had been shifted and trained
C25_Witness ==
    /\ last.kind = "pred"
    /\ Len(ops) = 2
    /\ stat_updates < MaxUpdates
    /\ table[ops[1].bp_perceptron_index] # ops[1].seen
    /\ ops[1].pred = "NOT_TAKEN"
    /\ ops[1].bp_perceptron_ghist[63] = 1
    /\ ops[2].bp_perceptron_ghist[0] = 0
    /\ ops[2].bp_perceptron_ghist[1] = 1
    /\ ops[2].bp_perceptron_ghist[2] = 0

\* C26: the two training rules agree on every input: for every weight in
\* [-128, 127], 127 and -128 included, every t and every history bit, the
\* clamp-before-store update of bp_perceptron_train and the
\* add-in-place-then-clamp update of bp_perceptron_update and of the
\* standalone update leave the same weight.
C26_RulesAgree ==
    last.kind = "both" => \A j \in 0..hist_len : table[0][j] = table[1][j]

\* a weight at 127 stepped upwards: bp_perceptron_train keeps 127, the
\* in-place update leaves -128
C26_Witness ==
    /\ last.kind = "both"
    /\ last.arg = 1
    /\ last.pre.table[0][0] = 127
    /\ table[0][0] = 127
    /\ table[1][0] = -128

\* C27: train judges a misprediction consistently with the direction that
\* predict returned: for every snapshot made by predict, train counts a
\* misprediction exactly when the returned direction differs from the true
\* outcome; a raw output of 0 was returned as taken, so with it a not-taken
\* outcome is a misprediction and a taken outcome is not.
C27_MispredictionMatchesDirection ==
    last.kind = "train" =>
        /\ last.op.pred = (IF LastY >= 0 THEN "TAKEN" ELSE "NOT_TAKEN")
        /\ stat_mispredictions =
               last.pre.stat_mispredictions + (IF last.op.pred # last.arg THEN 1 ELSE 0)
        /\ LastY = 0 =>
               stat_mispredictions =
                   last.pre.stat_mispredictions + (IF last.arg = "NOT_TAKEN" THEN 1 ELSE 0)

\* a snapshot with raw output 0, returned as taken, resolves not taken and
\* is counted as a misprediction
C27_Witness ==
    /\ last.kind = "train"
    /\ LastY = 0
    /\ last.op.pred = "TAKEN"
    /\ last.arg = "NOT_TAKEN"
    /\ stat_mispredictions = last.pre.stat_mispredictions + 1

\* a table with every weight at v
ConstTable(v) == [e \in DOMAIN table |-> [j \in Slots |-> v]]
\* tables a snapshot may be trained against: the present one, the one it was
\* made from, and tables with every weight at a bound or in between
TablesFor(a) == {table, a.born.table} \cup {ConstTable(v) : v \in {-128, -50, 0, 127}}
\* the perceptron output of weights w on history h is beyond the threshold
\* on the side of outcome d
Confident(w, h, d) ==
    IF d = "TAKEN" THEN RefY(w, hist_len, h) > threshold
    ELSE RefY(w, hist_len, h) < -threshold

\* C28: train's decision and deltas depend on the snapshot alone: whether an
\* update is applied, whether a misprediction is counted and the delta
\* t * x_i of every weight are functions of the outcome, the snapshot's raw
\* output and the snapshot's history; the weights of the entry only enter
\* the clamp.  So a stale snapshot is trained although the entry has become
\* confident, and training one snapshot twice applies the delta twice and
\* counts a misprediction twice.
C28_SnapshotAlone ==
    /\ \A i \in 1..Len(ops), d \in Dirs :
          LET a == ops[i]
              e == a.bp_perceptron_index
              mis == IF (a.bp_perceptron_y_out >= 0) # (d = "TAKEN") THEN 1 ELSE 0
              upd == IF Applies(a, d) THEN 1 ELSE 0
          IN /\ \A tbl \in TablesFor(a) :
                   LET r == TrainOp(tbl, a, d)
                   IN /\ r.mispredictions = mis
                      /\ r.updates = upd
                      /\ r.threshold_updates = upd * (1 - mis)
                      /\ \A k \in Used :
                            r.table[e][k] =
                                RefClamp(tbl[e][k] + upd * Delta(a, d, k))
             /\ LET two == TrainTwo(a, d, a, d)
                IN /\ two.counts = <<2 * mis, 2 * upd, 2 * upd * (1 - mis)>>
                   /\ \A k \in Used :
                         two.table[e][k] =
                             RefClamp(RefClamp(table[e][k] + upd * Delta(a, d, k))
                                          + upd * Delta(a, d, k))
    /\ last.kind = "train" =>
          LET mis == IF (LastY >= 0) # (last.arg = "TAKEN") THEN 1 ELSE 0
              upd == IF Applies(last.op, last.arg) THEN 1 ELSE 0
          IN /\ stat_mispredictions = last.pre.stat_mispredictions + mis
             /\ stat_updates = last.pre.stat_updates + upd
             /\ \A k \in Used :
                   LastNew[k] = RefClamp(LastOld[k] + upd * Delta(last.op, last.arg, k))

\* one snapshot with raw output 0 resolved not taken again and again: the
\* entry has become confident of not-taken on the snapshot's history, and
\* the snapshot is trained once more, its delta applied and a further
\* misprediction counted for the one prediction
C28_Witness ==
    /\ last.kind = "train"
    /\ last.arg = "NOT_TAKEN"
    /\ LastY = 0
    /\ Confident(LastOld, last.op.bp_perceptron_ghist, "NOT_TAKEN")
    /\ LastApplied
    /\ \A k \in Used : LastNew[k] = LastOld[k] - RefX(last.op.bp_perceptron_ghist, k)
    /\ stat_predictions = 1
    /\ last.pre.stat_mispredictions >= 2
    /\ stat_mispredictions = last.pre.stat_mispredictions + 1

\* the update of the last train clamps no weight in use: every sum
\* w[k] + t * x_k is within the weight range
LastUnclamped ==
    \A k \in Used :
        LastOld[k] + LastT * RefX(last.op.bp_perceptron_ghist, k)
            \in PERCEPTRON_WEIGHT_MIN..PERCEPTRON_WEIGHT_MAX
\* the perceptron output of the trained entry on the snapshot's history,
\* before and after the last train
LastYBefore == RefY(LastOld, hist_len, last.op.bp_perceptron_ghist)
LastYAfter == RefY(LastNew, hist_len, last.op.bp_perceptron_ghist)

\* C29: each applied update moves the output toward the true outcome: when
\* train applies an update to entry e for snapshot history h, the output of
\* e on h satisfies t * (y_after - y_before) >= 0, and when the update
\* clamps no weight of e, y_after = y_before + t * (hist_len + 1).
C29_UpdateMovesOutput ==
    (last.kind = "train" /\ LastApplied) =>
        /\ LastT * (LastYAfter - LastYBefore) >= 0
        /\ LastUnclamped => LastYAfter = LastYBefore + LastT * (hist_len + 1)

\* an applied update that clamps a weight and still moves the output
\* towards the outcome, but by less than hist_len + 1
C29_Witness ==
    /\ last.kind = "train"
    /\ LastApplied
    /\ ~LastUnclamped
    /\ LastT * (LastYAfter - LastYBefore) > 0
    /\ LastT * (LastYAfter - LastYBefore) < hist_len + 1

\* the outcome of the constant trace and the entry of its branch
ConstTaken == ops[1].taken
ConstIdx == compute_index(ops[1].pc, num_entries)
\* with table tbl and history g, the history in use holds the outcome in
\* every bit and the raw output of the entry is beyond the threshold on the
\* side of the outcome
SettledAt(tbl, g) ==
    /\ \A j \in 0..(hist_len - 1) : g[j] = ConstTaken
    /\ IF ConstTaken = 1 THEN RefY(tbl[ConstIdx], hist_len, g) > threshold
       ELSE RefY(tbl[ConstIdx], hist_len, g) < -threshold
Settled == SettledAt(table, ghist)

\* C30: learning converges on a constant branch: from cold start, with one
\* branch address whose outcome is always taken (or always not taken) and,
\* per branch, predict, train with the true outcome, then the history
\* advanced by the true outcome, there is no misprediction for always-taken
\* and exactly one (the first branch) for always-not-taken, and after
\* finitely many branches (before the trace ends) the raw output is beyond
\* the threshold for good: from then on every prediction is correct and no
\* weight changes.
C30_ConstantBranchConverges ==
    /\ stat_mispredictions <= 1
    /\ ConstTaken = 1 => stat_mispredictions = 0
    /\ (ConstTaken = 0 /\ op_count >= 1) => stat_mispredictions = 1
    /\ op_count = Len(ops) => Settled
    /\ (op_count >= 1 /\ SettledAt(last.pre.table, last.pre.ghist)) =>
           /\ Settled
           /\ table = last.pre.table
           /\ stat_updates = last.pre.stat_updates
           /\ last.op.pred = ConstTaken
           /\ Abs(last.op.y_out) > threshold

\* the simulator's predictor with history length 28 on the always-taken
\* branch: fewer branches were trained than the history took to fill (the
\* raw output was beyond the threshold at some of them and fell back, and
\* training went on), and now the entry has settled and a further branch is
\* predicted right without training
C30_Witness ==
    /\ last.kind = "simulator"
    /\ hist_len = 28
    /\ ConstTaken = 1
    /\ op_count >= 1
    /\ SettledAt(last.pre.table, last.pre.ghist)
    /\ Settled
    /\ last.pre.table = table
    /\ last.op.pred = 1
    /\ last.op.y_out > threshold
    /\ stat_updates > 0
    /\ stat_updates < hist_len
    /\ stat_mispredictions = 0

\* C31: in every reachable state updates = mispredictions + low-confidence
\* updates (every counted misprediction is trained, every applied update is
\* a misprediction or a low-confidence correct prediction), and, every
\* snapshot being trained at most once (a resolved branch leaves the
\* machine), mispredictions <= updates <= predictions.
C31_StatisticsRelated ==
    /\ stat_updates = stat_mispredictions + stat_threshold_updates
    /\ stat_mispredictions <= stat_updates
    /\ stat_updates <= stat_predictions
    /\ last.kind = "train" =>
          /\ stat_mispredictions > last.pre.stat_mispredictions =>
                 stat_updates > last.pre.stat_updates
          /\ stat_updates > last.pre.stat_updates =>
                 \/ stat_mispredictions > last.pre.stat_mispredictions
                 \/ stat_threshold_updates > last.pre.stat_threshold_updates

\* a confident correct prediction resolves and is not trained, in a
\* predictor that has counted both mispredictions and low-confidence
\* updates: fewer updates than resolved branches
C31_Witness ==
    /\ last.kind = "train"
    /\ stat_updates = last.pre.stat_updates
    /\ stat_mispredictions > 0
    /\ stat_threshold_updates > 0
    /\ stat_mispredictions < stat_updates
    /\ stat_updates < stat_predictions - Len(ops)

\* history values that agree with g on bits 0..hist_len-1: g itself, g with
\* every higher bit set, with every higher bit cleared, and with bit
\* hist_len or bit 63 inverted
SameLowBits(g) ==
    {g,
     [j \in BitPos |-> IF j < hist_len THEN g[j] ELSE 1],
     [j \in BitPos |-> IF j < hist_len THEN g[j] ELSE 0]}
        \cup {[g EXCEPT ![j] = 1 - @] : j \in {hist_len, 63} \cap (hist_len..63)}

\* C32: only the low hist_len bits of a history value matter: two history
\* values that agree on bits 0..hist_len-1 give the same raw output and
\* direction in predict, and two snapshots that agree on index, raw output
\* and the low hist_len bits of the saved history give the same weight
\* table when trained with the same outcome.
C32_LowBitsOnly ==
    /\ \A pc \in PCs, g \in SameLowBits(ghist) :
          LET p == bp_perceptron_predict(table, num_entries, hist_len, ghist, pc)
              q == bp_perceptron_predict(table, num_entries, hist_len, g, pc)
          IN p.y_out = q.y_out /\ p.ret = q.ret /\ p.saved_index = q.saved_index
    /\ \A i \in 1..Len(ops), taken \in {0, 1} :
          \A g \in SameLowBits(ops[i].bp_perceptron_ghist) :
              bp_perceptron_train(table, hist_len, threshold, ghist, taken,
                                  ops[i].bp_perceptron_y_out, g,
                                  ops[i].bp_perceptron_index).table
                  = bp_perceptron_train(table, hist_len, threshold, ghist, taken,
                                        ops[i].bp_perceptron_y_out,
                                        ops[i].bp_perceptron_ghist,
                                        ops[i].bp_perceptron_index).table

\* a branch in flight whose snapshot was taken under a history with both
\* values among its higher bits and whose training changes the entry, in a
\* state whose register differs from that snapshot in a low bit, with an
\* entry of non-zero weights to predict from
C32_Witness ==
    /\ Len(ops) >= 1
    /\ ops[1].spec
    /\ \E j \in hist_len..63 : ops[1].bp_perceptron_ghist[j] = 1
    /\ \E j \in 0..(hist_len - 1) : ops[1].bp_perceptron_ghist[j] = 0
    /\ \E j \in 0..(hist_len - 1) : ghist[j] # ops[1].bp_perceptron_ghist[j]
    /\ Abs(ops[1].bp_perceptron_y_out) <= threshold
    /\ table[ops[1].bp_perceptron_index][hist_len] # 0
    /\ Cardinality(SameLowBits(ghist)) >= 3

\* largest magnitude of a sum of n + 1 weights
SumBound(n) == 128 * (n + 1)
\* y being the sum of bp_perceptron_predict after the bias and the first n
\* history weights of w under history g: it and every later sum up to
\* weight hl are within the bound
RECURSIVE PartialSumsBounded(_, _, _, _, _)
PartialSumsBounded(w, g, n, hl, y) ==
    IF Abs(y) > SumBound(n) THEN FALSE
    ELSE IF n >= hl THEN TRUE
    ELSE PartialSumsBounded(w, g, n + 1, hl, y + RefX(g, n + 1) * w[n + 1])

\* C33: the raw output is bounded: in every reachable state and for every
\* pc, |y| <= 128 * (hist_len + 1), at most 8320 for hist_len = 64, so the
\* 32-bit sum of predict (after each of its additions) never overflows and
\* the absolute value taken in train is well defined.
C33_RawOutputBounded ==
    /\ SumBound(hist_len) <= 8320
    /\ \A pc \in PCs :
          LET p == bp_perceptron_predict(table, num_entries, hist_len, ghist, pc)
          IN /\ Abs(p.y_out) <= SumBound(hist_len)
             /\ PartialSumsBounded(table[p.saved_index], ghist, 0, hist_len,
                                   table[p.saved_index][0])
    /\ \A i \in 1..Len(ops) :
          /\ Abs(ops[i].bp_perceptron_y_out) <= SumBound(hist_len)
          /\ ops[i].bp_perceptron_y_out >= -2147483647
    /\ last.kind = "train" => Abs(LastY) <= SumBound(hist_len)

\* a predictor with the largest history length and every weight in use of
\* an entry at -128 has predicted under a history of ones: the raw output
\* is -8320, the bound itself, and the snapshot has been trained
C33_Witness ==
    /\ last.kind = "train"
    /\ hist_len = PERCEPTRON_MAX_HIST_LEN
    /\ LastY = -8320
    /\ Abs(LastY) = SumBound(hist_len)
    /\ LastNew # LastOld

\* weights with 1 at position i and 0 elsewhere
UnitWeights(i) == [j \in Slots |-> IF j = i THEN 1 ELSE 0]

\* C34: history bit order: after k consecutive shifts with directions
\* d1, ..., dk (k <= 64, no recover in between) of a register that held g,
\* bit 0 is dk, bit j is d(k-j) for every j < k, and bit j is bit j-k of g
\* for k <= j <= 63; so the weight at position i in predict is paired with
\* the i-th most recent direction.
C34_BitOrder ==
    LET k == op_count
        g == last.arg
    IN /\ \A j \in BitPos :
             ghist[j] = IF j < k THEN ops[k - j] ELSE g[j - k]
       /\ k >= 1 => ghist[0] = ops[k]
       /\ \A i \in {1, 2, k, hist_len} \cap 1..k :
             i <= hist_len =>
                 PredictLoop(UnitWeights(i), 1, hist_len, ghist, 0)
                     = to_bipolar(ops[k - i + 1])

\* 64 shifts with directions of period 3 made from a register of ones:
\* every bit of the register is one of the directions, none is left of
\* the start value, and both values occur
C34_Witness ==
    /\ op_count = 64
    /\ last.arg = Ones64
    /\ ops[1] = 0 /\ ops[2] = 0 /\ ops[3] = 1
    /\ ghist[63] = 0
    /\ ghist[0] = ops[64]
    /\ ghist[1] = 1

\* table tbl with value v in every slot above hist_len of every entry
FillUnused(tbl, v) ==
    [e \in DOMAIN tbl |-> [j \in Slots |-> IF j > hist_len THEN v ELSE tbl[e][j]]]

\* C35: every entry stores 65 weight slots but only slots 0..hist_len are
\* ever read or written: in every reachable state every slot j with
\* hist_len < j <= 64 of every entry is 0, and neither the output of
\* predict nor the update of train depends on those slots.
C35_UnusedSlots ==
    /\ \A e \in DOMAIN table : DOMAIN table[e] = 0..64
    /\ \A e \in DOMAIN table, j \in Slots : j > hist_len => table[e][j] = 0
    /\ \A v \in {-128, 127} :
          LET filled == FillUnused(table, v)
          IN /\ \A pc \in PCs :
                   LET p == bp_perceptron_predict(table, num_entries, hist_len, ghist, pc)
                       q == bp_perceptron_predict(filled, num_entries, hist_len, ghist, pc)
                   IN p.y_out = q.y_out /\ p.ret = q.ret /\ q.table = filled
             /\ \A i \in 1..Len(ops), taken \in {0, 1} :
                   LET r == bp_perceptron_train(table, hist_len, threshold, ghist, taken,
                                                ops[i].bp_perceptron_y_out,
                                                ops[i].bp_perceptron_ghist,
                                                ops[i].bp_perceptron_index)
                       f == bp_perceptron_train(filled, hist_len, threshold, ghist, taken,
                                                ops[i].bp_perceptron_y_out,
                                                ops[i].bp_perceptron_ghist,
                                                ops[i].bp_perceptron_index)
                   IN /\ f.table = FillUnused(r.table, v)
                      /\ f.updates = r.updates
                      /\ f.mispredictions = r.mispredictions

\* an update has just changed every weight in use of an entry, the one at
\* position hist_len included, and the slots above are still 0
C35_Witness ==
    /\ last.kind = "train"
    /\ hist_len < 64
    /\ \A j \in 0..hist_len : LastNew[j] # LastOld[j]
    /\ LastNew[hist_len] # 0
    /\ \A j \in (hist_len + 1)..64 : LastNew[j] = 0
    /\ Len(ops) >= 1

\* C36: the timestamp and retire hooks are no-ops: called at any point of
\* any operation sequence they leave the weight table, the history
\* register, the configuration and every counter unchanged, so training
\* happens only at resolution (update_op).
C36_HooksAreNoOps ==
    /\ last.kind \in {"timestamp", "retire"} => Snapshot = last.pre
    /\ last.kind \in {"timestamp", "retire", "pred", "spec", "recover"} =>
          /\ table = last.pre.table
          /\ stat_updates = last.pre.stat_updates
          /\ stat_mispredictions = last.pre.stat_mispredictions

\* the retire hook called for a branch in flight whose raw output is within
\* the threshold, after another branch has resolved and trained the table
C36_Witness ==
    /\ last.kind = "retire"
    /\ last.op.spec
    /\ Abs(last.op.bp_perceptron_y_out) <= threshold
    /\ table # last.op.born.table
    /\ op_count > Len(ops)
    /\ Snapshot = last.pre

=============================================================================
